---- MODULE Spec2Model ----
(***************************************************************************)
(* Read-through resolvers of the Quran / Hadith services                   *)
(* (services/quranApiService.ts, services/hadithApiService.ts) over the    *)
(* Redis wrapper of config/database.ts, a remote provider and the MongoDB  *)
(* mirror.                                                                 *)
(*                                                                         *)
(* Strings are sequences of tokens, so that template literals, join and    *)
(* startsWith are computed as the code computes them.  A value that is     *)
(* written to Redis is a JSON text, [json |-> v]; JSON.parse unwraps it.   *)
(***************************************************************************)
EXTENDS Integers, Sequences, FiniteSets, TLC

VARIABLES
    redisMode,      \* environment: how the Redis server behaves in this run
    redisIsOpen,    \* redisClient.isOpen
    store,          \* the Redis key space: key -> [value, ttl]
    mongoUp,        \* environment: the MongoDB mirror can be queried
    mirror,         \* the Surah / Hadith collections of the mirror
    inv,            \* the resolver invocation in progress, per caller
    prev,           \* the last completed top-level call of each caller
    calls,          \* number of top-level calls started so far
    workload,       \* environment: the requests the callers of this run issue
    lastRedis,      \* the last redisGet / redisSet call and what it returned
    connecting,     \* redisConnecting / mongoConnecting, per store
    connected,      \* redisClient.isOpen / mongoose readyState === 1, per store
    orphans,        \* connect() calls still pending that no caller awaits any more
    cc,             \* each caller's position in ensure...Connected / connect...
    seed,           \* the seeding script in progress (scripts/seedHadiths.ts, seedQuran.ts)
    chap,           \* a chapter listing and the lookup of one of its ids
    boot            \* the serverless handler: initialization and the requests waiting on it

vars == <<redisMode, redisIsOpen, store, mongoUp, mirror, inv, prev, calls, workload,
          lastRedis, connecting, connected, orphans, cc, seed, chap, boot>>

connVars == <<connecting, connected, orphans, cc>>

jobVars == <<seed, chap, boot>>

\* the variables of the resolvers, their cache and their callers
resolverVars == <<redisMode, redisIsOpen, store, inv, prev, calls, workload, lastRedis>>

(***************************************************************************)
(* Bounds                                                                  *)
(***************************************************************************)
MaxCalls == 3

(***************************************************************************)
(* Strings                                                                 *)
(***************************************************************************)
None == "none"

DEFAULT_ARABIC_EDITION == <<"quran-uthmani">>

\* array.join(sep) over an array of strings
RECURSIVE join(_, _)
join(arr, sep) ==
    IF Len(arr) = 0 THEN <<>>
    ELSE IF Len(arr) = 1 THEN arr[1]
    ELSE arr[1] \o sep \o join(Tail(arr), sep)

\* s.startsWith('en.')
startsWithEn(s) == Len(s) >= 1 /\ s[1] = "en."

\* s.includes(':')
includesColon(s) == \E k \in 1..Len(s) : s[k] = ":"

\* String(n) and Number(s) on the numerals the requests use
numeral(n) ==
    CASE n = 0 -> "0" [] n = 1 -> "1" [] n = 2 -> "2" [] n = 3 -> "3"
      [] n = 4 -> "4" [] n = 5 -> "5" [] OTHER -> "n"

Number(t) ==
    CASE t = "0" -> 0 [] t = "1" -> 1 [] t = "2" -> 2 [] t = "3" -> 3
      [] t = "4" -> 4 [] t = "5" -> 5 [] OTHER -> -1

\* JSON.stringify / JSON.parse
JSONstringify(v) == [json |-> v]
JSONparse(s) == s.json

(***************************************************************************)
(* Results of a call: a value, JS null, or a thrown error                  *)
(***************************************************************************)
Val(v) == [kind |-> "value", v |-> v]
Null == [kind |-> "null"]
Thrown == [kind |-> "throw"]

(***************************************************************************)
(* The mirror (models/mongodb/Quran.ts, models/mongodb/Hadith.ts)          *)
(***************************************************************************)
MongoAyah1 ==
    [number |-> 1, numberInSurah |-> 1, text |-> "t1", textArabic |-> "ar1",
     translation |-> "en1", juz |-> 1, manzil |-> 1, page |-> 1, ruku |-> 1,
     hizbQuarter |-> 1, sajda |-> FALSE]

\* an ayah stored without a translation
MongoAyah2 ==
    [number |-> 2, numberInSurah |-> 2, text |-> "t2", textArabic |-> "ar2",
     juz |-> 1, manzil |-> 1, page |-> 1, ruku |-> 1,
     hizbQuarter |-> 1, sajda |-> TRUE]

MongoSurah1 ==
    [number |-> 1, name |-> "Al-Faatiha", nameArabic |-> "al-fatiha-ar",
     nameTranslation |-> "The Opening", revelationType |-> "Meccan",
     numberOfAyahs |-> 2, ayahs |-> <<MongoAyah1, MongoAyah2>>]

MongoHadith1 ==
    [oid |-> 7, collectionName |-> "sahih-bukhari", book |-> "Revelation",
     bookNumber |-> 1, hadithNumber |-> "1", chapter |-> "How revelation began",
     chapterNumber |-> 1, arabicText |-> "h-ar1", englishText |-> "h-en1",
     grade |-> "Sahih"]

SeededMirror == [surahs |-> <<MongoSurah1>>, hadiths |-> <<MongoHadith1>>]
EmptyMirror == [surahs |-> <<>>, hadiths |-> <<>>]

(***************************************************************************)
(* Redis wrapper (config/database.ts)                                      *)
(***************************************************************************)
RedisModes == {"up", "down", "flaky"}

\* what redisClient.connect() raced against the 3 s timer can do
ConnectOutcomes(mode) ==
    IF mode = "down" THEN {"rejected", "timeout"} ELSE {"connected"}

\* what a GET / SET / SETEX command on an open client can do
CommandOutcomes(mode) ==
    CASE mode = "up" -> {"ok"}
      [] mode = "down" -> {"error"}
      [] OTHER -> {"ok", "error"}

\* connectRedis with no other attempt in flight: the value of isOpen after it.
\* Every exception is caught; after a timeout the client is still opening.
connectRedis(isOpen, conn) ==
    IF isOpen THEN TRUE
    ELSE CASE conn = "connected" -> TRUE
           [] conn = "timeout" -> TRUE
           [] OTHER -> FALSE

ensureRedisConnected(isOpen, conn) ==
    IF isOpen THEN [ok |-> TRUE, isOpen |-> TRUE]
    ELSE LET o == connectRedis(isOpen, conn)
         IN  [ok |-> o, isOpen |-> o]

Miss == [hit |-> FALSE]

\* redisGet that drops what GET returned
redisGet_dropped(key, st, isOpen, conn, cmd) ==
    [ret |-> Miss, threw |-> FALSE, isOpen |-> ensureRedisConnected(isOpen, conn).isOpen]

\* redisGet without its try/catch: a failing GET reaches the resolver
redisGet_uncaught(key, st, isOpen, conn, cmd) ==
    LET e == ensureRedisConnected(isOpen, conn)
    IN  IF e.ok
        THEN IF cmd = "ok"
             THEN [ret |-> IF key \in DOMAIN st
                           THEN [hit |-> TRUE, s |-> st[key].value]
                           ELSE Miss,
                   threw |-> FALSE, isOpen |-> e.isOpen]
             ELSE [ret |-> Miss, threw |-> TRUE, isOpen |-> e.isOpen]
        ELSE [ret |-> Miss, threw |-> FALSE, isOpen |-> e.isOpen]

\* redisGet(key) with its try/catch: a miss (null) on any failure
redisGet(key, st, isOpen, conn, cmd) ==
    LET e == ensureRedisConnected(isOpen, conn)
        body == IF e.ok
                THEN IF cmd = "ok"
                     THEN [ret |-> IF key \in DOMAIN st
                                   THEN [hit |-> TRUE, s |-> st[key].value]
                                   ELSE Miss,
                           threw |-> FALSE]
                     ELSE [ret |-> Miss, threw |-> TRUE]
                ELSE [ret |-> Miss, threw |-> FALSE]
    IN  [ret |-> IF body.threw THEN Miss ELSE body.ret,
         threw |-> FALSE, isOpen |-> e.isOpen]

\* SET / SETEX on the key space
\* a store that keeps the entry it already has (SET ... NX)
storeWrite_keepFirst(st, key, value, expirySeconds) ==
    [k \in DOMAIN st \cup {key} |->
        IF k \in DOMAIN st THEN st[k] ELSE [value |-> value, ttl |-> expirySeconds]]

storeWrite(st, key, value, expirySeconds) ==
    [k \in DOMAIN st \cup {key} |->
        IF k = key THEN [value |-> value, ttl |-> expirySeconds] ELSE st[k]]

\* redisSet without its try/catch: a failing SET / SETEX reaches the resolver
redisSet_uncaught(key, value, expirySeconds, st, isOpen, conn, cmd) ==
    LET e == ensureRedisConnected(isOpen, conn)
        done == e.ok /\ cmd = "ok"
    IN  [ret |-> done, threw |-> e.ok /\ cmd # "ok", isOpen |-> e.isOpen,
         store |-> IF done THEN storeWrite(st, key, value, expirySeconds) ELSE st]

\* redisSet(key, value, expirySeconds) with its try/catch: the boolean returned
redisSet(key, value, expirySeconds, st, isOpen, conn, cmd) ==
    LET e == ensureRedisConnected(isOpen, conn)
        body == IF e.ok
                THEN IF cmd = "ok"
                     THEN [ret |-> TRUE, threw |-> FALSE]
                     ELSE [ret |-> FALSE, threw |-> TRUE]
                ELSE [ret |-> FALSE, threw |-> FALSE]
    IN  [ret |-> IF body.threw THEN FALSE ELSE body.ret,
         threw |-> FALSE, isOpen |-> e.isOpen,
         store |-> IF body.ret THEN storeWrite(st, key, value, expirySeconds)
                   ELSE st]

(***************************************************************************)
(* Remote providers: api.alquran.cloud and hadithapi.com                   *)
(***************************************************************************)
EditionText(k, editionId) ==
    IF startsWithEn(editionId)
    THEN (IF k = 1 THEN "en1" ELSE "en2")
    ELSE (IF k = 1 THEN "ar1" ELSE "ar2")

RemoteAyah(k, editionId) ==
    [number |-> k, text |-> EditionText(k, editionId), numberInSurah |-> k,
     juz |-> 1, manzil |-> 1, page |-> 1, ruku |-> 1, hizbQuarter |-> 1,
     sajda |-> (k = 2)]

RemoteSurah(editionId) ==
    [number |-> 1, name |-> "al-fatiha-ar", englishName |-> "Al-Faatiha",
     englishNameTranslation |-> "The Opening", revelationType |-> "Meccan",
     ayahs |-> <<RemoteAyah(1, editionId), RemoteAyah(2, editionId)>>]

(***************************************************************************)
(* services/quranApiService.ts                                             *)
(***************************************************************************)
Map(f(_), seq) == [k \in 1..Len(seq) |-> f(seq[k])]

RECURSIVE Flatten(_)
Flatten(seqs) == IF Len(seqs) = 0 THEN <<>> ELSE Head(seqs) \o Flatten(Tail(seqs))

transformAyahToApiFormat(ayah) ==
    [number |-> ayah.number, text |-> ayah.textArabic,
     numberInSurah |-> ayah.numberInSurah, juz |-> ayah.juz,
     manzil |-> ayah.manzil, page |-> ayah.page, ruku |-> ayah.ruku,
     hizbQuarter |-> ayah.hizbQuarter,
     sajda |-> ("sajda" \in DOMAIN ayah /\ ayah.sajda)]

\* ayah.translation || ayah.text
translationOrText(ayah) ==
    IF "translation" \in DOMAIN ayah /\ ayah.translation # ""
    THEN ayah.translation ELSE ayah.text

\* the object literal of the en.* branches
englishAyah(ayah) ==
    [transformAyahToApiFormat(ayah) EXCEPT !.text = translationOrText(ayah)]

transformSurahToApiFormat(surah) ==
    [number |-> surah.number, name |-> surah.nameArabic,
     englishName |-> surah.name,
     englishNameTranslation |-> surah.nameTranslation,
     revelationType |-> surah.revelationType,
     ayahs |-> Map(transformAyahToApiFormat, surah.ayahs)]

englishSurah(surah) ==
    [transformSurahToApiFormat(surah) EXCEPT !.ayahs = Map(englishAyah, surah.ayahs)]

\* edition || DEFAULT_ARABIC_EDITION (undefined and '' are both the empty string)
editionIdOf(edition) == IF edition = <<>> THEN DEFAULT_ARABIC_EDITION ELSE edition

\* the three-way edition branch of the single-edition fallbacks
ayahForEdition(ayah, editionId) ==
    IF editionId = DEFAULT_ARABIC_EDITION \/ editionId = <<>>
    THEN transformAyahToApiFormat(ayah)
    ELSE IF startsWithEn(editionId) THEN englishAyah(ayah)
    ELSE transformAyahToApiFormat(ayah)

surahForEdition(surah, editionId) ==
    IF editionId = DEFAULT_ARABIC_EDITION \/ editionId = <<>>
    THEN transformSurahToApiFormat(surah)
    ELSE IF startsWithEn(editionId) THEN englishSurah(surah)
    ELSE transformSurahToApiFormat(surah)

\* Surah.findOne({ number })
findSurah(m, surahNumber) ==
    SelectSeq(m.surahs, LAMBDA su : su.number = surahNumber)

\* array.slice(from) and array.slice(0, n)
sliceFrom(seq, from) == SubSeq(seq, from + 1, Len(seq))
sliceTo(seq, n) == SubSeq(seq, 1, IF n < Len(seq) THEN n ELSE Len(seq))

\* the outcome of a fallback: mirror queries issued, and a value to cache
\* with a TTL, a not-found return, or a failed query
FbValue(q, v, ttl) == [queries |-> q, kind |-> "value", value |-> v, ttl |-> ttl]
FbNotFound(q) == [queries |-> q, kind |-> "notfound"]
FbThrow(q) == [queries |-> q, kind |-> "throw"]

\* `${reference}` of a string | number reference
refStr(reference) ==
    IF reference.type = "number" THEN <<numeral(reference.n)>> ELSE reference.s

\* reference.split(':')
RECURSIVE splitColon(_)
splitColon(str) ==
    IF \A k \in 1..Len(str) : str[k] # ":" THEN <<str>>
    ELSE LET c == CHOOSE k \in 1..Len(str) :
                     str[k] = ":" /\ \A j \in 1..(k - 1) : str[j] # ":"
         IN  <<SubSeq(str, 1, c - 1)>> \o splitColon(SubSeq(str, c + 1, Len(str)))

\* Number(part) of a split part
NumberOf(part) == IF Len(part) = 1 THEN Number(part[1]) ELSE -1

---------------------------------------------------------------------------
\* getSurahsList
getSurahsList_cacheKey == <<"quran", ":", "surahs", ":", "list">>

getSurahsList_remote(data) ==
    Map(LAMBDA su : [su EXCEPT !.ayahs = <<>>], data)

getSurahsList_fallback(m, up) ==
    IF ~up THEN FbThrow(0)
    ELSE IF Len(m.surahs) > 0
    THEN FbValue(1, Map(LAMBDA su : [number |-> su.number, name |-> su.nameArabic,
                                     englishName |-> su.name,
                                     englishNameTranslation |-> su.nameTranslation,
                                     revelationType |-> su.revelationType,
                                     ayahs |-> <<>>], m.surahs), 3600)
    ELSE FbThrow(1)

\* getSurah
getSurah_cacheKey(surahNumber, edition) ==
    <<"quran", ":", "surah", ":", numeral(surahNumber), ":">> \o editionIdOf(edition)

getSurah_fallback(m, up, surahNumber, edition) ==
    LET found == findSurah(m, surahNumber)
    IN  IF ~up THEN FbThrow(1)
        ELSE IF Len(found) > 0
        THEN FbValue(1, surahForEdition(found[1], editionIdOf(edition)), 3600)
        ELSE FbNotFound(1)

\* getSurahMultipleEditions
getSurahMultipleEditions_cacheKey(surahNumber, editions) ==
    <<"quran", ":", "surah", ":", numeral(surahNumber), ":", "multi", ":">>
        \o join(editions, <<",">>)

\* the editions the loop of a multi-edition fallback gives an entry
editionsServed(editions) ==
    {editions[k] : k \in {j \in 1..Len(editions) :
        editions[j] = DEFAULT_ARABIC_EDITION \/ editions[j] = <<>>
            \/ startsWithEn(editions[j])}}

getSurahMultipleEditions_fallback(m, up, surahNumber, editions) ==
    LET found == findSurah(m, surahNumber)
        result == [e \in editionsServed(editions) |->
                      IF e = DEFAULT_ARABIC_EDITION \/ e = <<>>
                      THEN transformSurahToApiFormat(found[1])
                      ELSE englishSurah(found[1])]
    IN  IF ~up THEN FbThrow(1)
        ELSE IF Len(found) > 0 /\ DOMAIN result # {}
        THEN FbValue(1, result, 3600)
        ELSE FbNotFound(1)

\* getAyah
getAyah_cacheKey(reference, edition) ==
    <<"quran", ":", "ayah", ":">> \o refStr(reference) \o <<":">> \o editionIdOf(edition)

\* surah.ayahs.find(a => a.numberInSurah === ayahNumber)
findAyah(surah, ayahNumber) ==
    SelectSeq(surah.ayahs, LAMBDA a : a.numberInSurah = ayahNumber)

getAyah_fallback(m, up, reference, edition) ==
    IF reference.type = "string" /\ includesColon(reference.s)
    THEN LET parts == splitColon(reference.s)
             found == findSurah(m, NumberOf(parts[1]))
             ayahs == IF Len(found) > 0
                      THEN findAyah(found[1], NumberOf(parts[2])) ELSE <<>>
         IN  IF ~up THEN FbThrow(1)
             ELSE IF Len(ayahs) > 0
             THEN FbValue(1, ayahForEdition(ayahs[1], editionIdOf(edition)), 86400)
             ELSE FbNotFound(1)
    ELSE FbNotFound(0)

\* getAyahMultipleEditions
getAyahMultipleEditions_cacheKey(reference, editions) ==
    <<"quran", ":", "ayah", ":">> \o refStr(reference) \o <<":", "multi", ":">>
        \o join(editions, <<",">>)

getAyahMultipleEditions_fallback(m, up, reference, editions) ==
    IF reference.type = "string" /\ includesColon(reference.s)
    THEN LET parts == splitColon(reference.s)
             found == findSurah(m, NumberOf(parts[1]))
             ayahs == IF Len(found) > 0
                      THEN findAyah(found[1], NumberOf(parts[2])) ELSE <<>>
             result == [e \in editionsServed(editions) |->
                           IF e = DEFAULT_ARABIC_EDITION \/ e = <<>>
                           THEN transformAyahToApiFormat(ayahs[1])
                           ELSE englishAyah(ayahs[1])]
         IN  IF ~up THEN FbThrow(1)
             ELSE IF Len(ayahs) > 0 /\ DOMAIN result # {}
             THEN FbValue(1, result, 86400)
             ELSE FbNotFound(1)
    ELSE FbNotFound(0)

\* getJuz (getPage, getManzil, getRuku and getHizbQuarter repeat it field for field)
getJuz_cacheKey(juzNumber, edition, offset, limit) ==
    <<"quran", ":", "juz", ":", numeral(juzNumber), ":">> \o editionIdOf(edition)
        \o <<":", numeral(offset), ":", IF limit = 0 THEN "all" ELSE numeral(limit)>>

getJuz_fallback(m, up, juzNumber, edition, offset, limit) ==
    LET surahs == SelectSeq(m.surahs,
                     LAMBDA su : \E k \in 1..Len(su.ayahs) : su.ayahs[k].juz = juzNumber)
        ayahs == Flatten(Map(LAMBDA su :
                     Map(LAMBDA a : ayahForEdition(a, editionIdOf(edition)),
                         SelectSeq(su.ayahs, LAMBDA a : a.juz = juzNumber)), surahs))
        r1 == IF offset # 0 THEN sliceFrom(ayahs, offset) ELSE ayahs
        r2 == IF limit # 0 THEN sliceTo(r1, limit) ELSE r1
    IN  IF ~up THEN FbThrow(1)
        ELSE IF Len(surahs) > 0 THEN FbValue(1, r2, 3600)
        ELSE FbNotFound(1)

\* getSajdaAyahs
getSajdaAyahs_cacheKey(edition) == <<"quran", ":", "sajda", ":">> \o editionIdOf(edition)

getSajdaAyahs_fallback(m, up, edition) ==
    LET hasSajda(a) == "sajda" \in DOMAIN a /\ a.sajda
        surahs == SelectSeq(m.surahs,
                     LAMBDA su : \E k \in 1..Len(su.ayahs) : hasSajda(su.ayahs[k]))
        ayahs == Flatten(Map(LAMBDA su :
                     Map(LAMBDA a : ayahForEdition(a, editionIdOf(edition)),
                         SelectSeq(su.ayahs, hasSajda)), surahs))
    IN  IF ~up THEN FbThrow(1)
        ELSE IF Len(surahs) > 0 THEN FbValue(1, ayahs, 86400)
        ELSE FbNotFound(1)

\* searchQuran: never cached.  A text holds a keyword when it is the keyword.
textIncludes(text, keyword) == text = keyword

searchQuran_fallback(m, up, keyword, surah, edition, language) ==
    LET arabic == language = <<"ar">> \/ language = <<>> \/ edition = <<>>
                    \/ edition = DEFAULT_ARABIC_EDITION
        hit(a) == IF arabic THEN textIncludes(a.textArabic, keyword)
                  ELSE "translation" \in DOMAIN a /\ textIncludes(a.translation, keyword)
        surahs == SelectSeq(m.surahs,
                     LAMBDA su : (surah = 0 \/ su.number = surah)
                                   /\ \E k \in 1..Len(su.ayahs) : hit(su.ayahs[k]))
        \* the 'ayahs.$' projection keeps the first matching ayah
        projected(su) == <<SelectSeq(su.ayahs, hit)[1]>>
        toApi(a) == IF edition = DEFAULT_ARABIC_EDITION \/ edition = <<>>
                    THEN transformAyahToApiFormat(a)
                    ELSE IF startsWithEn(edition) THEN englishAyah(a)
                    ELSE transformAyahToApiFormat(a)
        ayahs == Flatten(Map(LAMBDA su :
                     Map(toApi, SelectSeq(projected(su), hit)), surahs))
    IN  IF ~up THEN FbThrow(1) ELSE FbValue(1, ayahs, 0)

(***************************************************************************)
(* services/hadithApiService.ts                                            *)
(***************************************************************************)
RemoteBook ==
    [id |-> 1, bookName |-> "Sahih Bukhari", writerName |-> "Imam Bukhari",
     aboutWriter |-> "null", writerDeath |-> "256", bookSlug |-> "sahih-bukhari",
     hadiths_count |-> "1", chapters_count |-> "1"]

RemoteChapter ==
    [id |-> 1, chapterNumber |-> "1", chapterEnglish |-> "How revelation began",
     chapterUrdu |-> "ch-ur", chapterArabic |-> "ch-ar", bookSlug |-> "sahih-bukhari"]

RemoteHadith ==
    [id |-> 1, hadithNumber |-> "1", englishNarrator |-> "Narrated Umar",
     hadithEnglish |-> "h-en1", hadithUrdu |-> "h-ur1", hadithArabic |-> "h-ar1",
     headingUrdu |-> "", headingEnglish |-> "", chapterId |-> "1",
     bookSlug |-> "sahih-bukhari", volume |-> "1", status |-> "Sahih",
     book |-> RemoteBook, chapter |-> RemoteChapter]

\* x?.toString() || '' and x || 0 on an optional number
optNumStr(h, f) == IF f \in DOMAIN h /\ h[f] # 0 THEN numeral(h[f]) ELSE ""
optNum(h, f) == IF f \in DOMAIN h THEN h[f] ELSE 0
optStr(h, f) == IF f \in DOMAIN h THEN h[f] ELSE ""

\* oid is the number parseInt reads from the last 8 hex digits of _id
transformHadithToApiFormat(hadith) ==
    [id |-> optNum(hadith, "oid"),
     hadithNumber |-> hadith.hadithNumber,
     englishNarrator |-> optStr(hadith, "narrator"),
     hadithEnglish |-> hadith.englishText,
     hadithUrdu |-> optStr(hadith, "urduText"),
     hadithArabic |-> hadith.arabicText,
     headingUrdu |-> "", headingEnglish |-> "",
     chapterId |-> optNumStr(hadith, "chapterNumber"),
     bookSlug |-> hadith.collectionName, volume |-> "",
     status |-> optStr(hadith, "grade"),
     book |-> [id |-> optNum(hadith, "bookNumber"), bookName |-> hadith.book,
               writerName |-> "", aboutWriter |-> "null", writerDeath |-> "",
               bookSlug |-> hadith.collectionName, hadiths_count |-> "0",
               chapters_count |-> "0"],
     chapter |-> [id |-> optNum(hadith, "chapterNumber"),
                  chapterNumber |-> optNumStr(hadith, "chapterNumber"),
                  chapterEnglish |-> hadith.chapter, chapterUrdu |-> "",
                  chapterArabic |-> "", bookSlug |-> hadith.collectionName]]

\* getBooks
getBooks_cacheKey == <<"hadith", ":", "books">>

\* Hadith.distinct('collectionName'), in first-seen order
RECURSIVE distinctSeq(_)
distinctSeq(seq) ==
    IF Len(seq) = 0 THEN <<>>
    ELSE LET rest == distinctSeq(SubSeq(seq, 1, Len(seq) - 1))
             x == seq[Len(seq)]
         IN  IF \E k \in 1..Len(rest) : rest[k] = x THEN rest ELSE Append(rest, x)

getBooks_fallback(m, up) ==
    LET collections == distinctSeq(Map(LAMBDA h : h.collectionName, m.hadiths))
        ofColl(c) == SelectSeq(m.hadiths, LAMBDA h : h.collectionName = c)
        books == Map(LAMBDA c :
                     [id |-> optNum(ofColl(c)[1], "bookNumber"),
                      bookName |-> ofColl(c)[1].book, writerName |-> "",
                      aboutWriter |-> "null", writerDeath |-> "", bookSlug |-> c,
                      hadiths_count |-> numeral(Len(ofColl(c))),
                      chapters_count |-> "0"], collections)
    IN  IF ~up THEN FbThrow(1)
        ELSE IF Len(books) > 0 THEN FbValue(1 + 2 * Len(collections), books, 3600)
        ELSE FbThrow(1)

\* getHadiths: filters is the object's properties in insertion order
SProp(k, str) == [k |-> k, num |-> FALSE, s |-> str, n |-> 0]
NProp(k, n) == [k |-> k, num |-> TRUE, s |-> "", n |-> n]

\* filters.name of a string property ('' when absent) and of a number property
fstr(filters, name) ==
    LET ps == SelectSeq(filters, LAMBDA pr : pr.k = name)
    IN  IF Len(ps) > 0 THEN ps[1].s ELSE ""

fnum(filters, name) ==
    LET ps == SelectSeq(filters, LAMBDA pr : pr.k = name)
    IN  IF Len(ps) > 0 THEN ps[1].n ELSE 0

\* JSON.stringify of a flat object: properties in insertion order
stringifyProp(pr) ==
    <<"\"", pr.k, "\"", ":">> \o
        (IF pr.num THEN <<numeral(pr.n)>> ELSE <<"\"", pr.s, "\"">>)

stringifyFilters(filters) ==
    <<"{">> \o join(Map(stringifyProp, filters), <<",">>) \o <<"}">>

getHadiths_cacheKey(filters) ==
    <<"hadith", ":", "search", ":">> \o stringifyFilters(filters)

\* !filters.hadithEnglish && !filters.hadithUrdu && !filters.hadithArabic
isNonSearch(filters) ==
    fstr(filters, "hadithEnglish") = "" /\ fstr(filters, "hadithUrdu") = ""
        /\ fstr(filters, "hadithArabic") = ""

\* hadithsData.pagination || { ... } of the remote branch
defaultPagination(data) ==
    [current_page |-> 1, last_page |-> 1, per_page |-> 25, total |-> Len(data),
     from |-> 1, to |-> Len(data)]

ceilDiv(a, b) == (a + b - 1) \div b

\* the Mongo query built from the filters
hadithMatches(h, filters) ==
    /\ fstr(filters, "book") # "" => h.collectionName = fstr(filters, "book")
    /\ fstr(filters, "chapter") # "" => textIncludes(h.chapter, fstr(filters, "chapter"))
    /\ fstr(filters, "hadithNumber") # "" => h.hadithNumber = fstr(filters, "hadithNumber")
    /\ fstr(filters, "status") # "" => optStr(h, "grade") = fstr(filters, "status")
    /\ fstr(filters, "hadithEnglish") # ""
          => textIncludes(h.englishText, fstr(filters, "hadithEnglish"))
    /\ fstr(filters, "hadithUrdu") # ""
          => textIncludes(optStr(h, "urduText"), fstr(filters, "hadithUrdu"))
    /\ fstr(filters, "hadithArabic") # ""
          => textIncludes(h.arabicText, fstr(filters, "hadithArabic"))

getHadiths_fallback(m, up, filters) ==
    LET page == IF fnum(filters, "page") # 0 THEN fnum(filters, "page") ELSE 1
        perPage == IF fnum(filters, "paginate") # 0 THEN fnum(filters, "paginate") ELSE 25
        skip == (page - 1) * perPage
        matching == SelectSeq(m.hadiths, LAMBDA h : hadithMatches(h, filters))
        total == Len(matching)
        hadiths == sliceTo(sliceFrom(matching, skip), perPage)
        result == [hadiths |-> Map(transformHadithToApiFormat, hadiths),
                   pagination |-> [current_page |-> page,
                                   last_page |-> ceilDiv(total, perPage),
                                   per_page |-> perPage, total |-> total,
                                   from |-> skip + 1,
                                   to |-> IF skip + perPage < total
                                          THEN skip + perPage ELSE total]]
    IN  IF ~up THEN FbThrow(2) ELSE FbValue(2, result, 3600)

\* getHadithById
getHadithById_cacheKey(id) == <<"hadith", ":", "id", ":", numeral(id)>>

\* the filters of the search getHadithById runs when the id endpoint has no answer
getHadithById_search(id) == <<SProp("hadithNumber", numeral(id)), NProp("paginate", 1)>>

getHadithById_fallback(m, up, id) ==
    LET found == SelectSeq(m.hadiths, LAMBDA h : h.hadithNumber = numeral(id))
    IN  IF ~up THEN FbThrow(1)
        ELSE IF Len(found) > 0
        THEN FbValue(1, transformHadithToApiFormat(found[1]), 86400)
        ELSE FbNotFound(1)

(***************************************************************************)
(* Requests a client of the services may issue                             *)
(***************************************************************************)
\* getEditions and getMeta: the remote provider only
RemoteEdition ==
    [identifier |-> "en.asad", language |-> "en", name |-> "Asad",
     englishName |-> "Asad", format |-> "text", type |-> "translation"]

RemoteMeta == [surahs |-> [count |-> 114], juzs |-> [count |-> 30]]

\* `quran:editions:${JSON.stringify(filters || {})}`
getEditions_cacheKey(filters) == <<"quran", ":", "editions", ":">> \o stringifyFilters(filters)

getMeta_cacheKey == <<"quran", ":", "meta">>

\* the resolvers with a "Fallback to database" part
hasFallback(op) == op \notin {"getEditions", "getMeta"}

\* the resolvers whose axios.get carries { timeout: 5000 }
hasTimeout(op) == op # "getEditions"

FbNone == [queries |-> 0, kind |-> "none"]

EnAsad == <<"en.", "asad">>
ArAlafasy == <<"ar.", "alafasy">>
StrRef(t) == [type |-> "string", s |-> t]
NumRef(n) == [type |-> "number", n |-> n]

EditionArgs == {<<>>, EnAsad, ArAlafasy}
EditionLists == {<<DEFAULT_ARABIC_EDITION, EnAsad>>,
                 <<DEFAULT_ARABIC_EDITION, ArAlafasy>>, <<ArAlafasy>>}
References == {StrRef(<<"1", ":", "2">>), StrRef(<<"2", ":", "1">>), NumRef(2),
               StrRef(<<"2">>)}
EditionFilters ==
    {<<>>,
     <<SProp("format", "text"), SProp("language", "en")>>,
     <<SProp("language", "en"), SProp("format", "text")>>}
HadithFilters ==
    {<<SProp("book", "sahih-bukhari"), NProp("paginate", 1), NProp("page", 1)>>,
     <<NProp("paginate", 1), NProp("page", 1), SProp("book", "sahih-bukhari")>>,
     <<SProp("hadithNumber", "2")>>,
     <<SProp("hadithEnglish", "h-en1")>>}

Requests ==
    {[op |-> "getSurahsList"]}
    \cup {[op |-> "getSurah", surahNumber |-> n, edition |-> e] :
             n \in {1, 2}, e \in EditionArgs}
    \cup {[op |-> "getSurahMultipleEditions", surahNumber |-> 1, editions |-> es] :
             es \in EditionLists}
    \cup {[op |-> "getAyah", reference |-> r, edition |-> e] :
             r \in References, e \in {<<>>, EnAsad}}
    \cup {[op |-> "getAyahMultipleEditions", reference |-> r, editions |-> es] :
             r \in {StrRef(<<"1", ":", "2">>), NumRef(2)}, es \in EditionLists}
    \cup {[op |-> "getJuz", juzNumber |-> j, edition |-> <<>>, offset |-> o, limit |-> 0] :
             j \in {1, 2}, o \in {0, 2}}
    \cup {[op |-> "getSajdaAyahs", edition |-> e] : e \in {<<>>, EnAsad}}
    \cup {[op |-> "searchQuran", keyword |-> "en1", surah |-> 0, edition |-> e,
           language |-> <<"en">>] : e \in {<<>>, EnAsad}}
    \cup {[op |-> "getEditions", filters |-> f] : f \in EditionFilters}
    \cup {[op |-> "getMeta"]}
    \cup {[op |-> "getBooks"]}
    \cup {[op |-> "getHadiths", filters |-> f] : f \in HadithFilters}
    \cup {[op |-> "getHadithById", id |-> k] : k \in {1, 2}}

NoReq == [op |-> "none"]

(***************************************************************************)
(* What the remote provider holds for a request                            *)
(***************************************************************************)
\* the ayah number a reference names at the provider, 0 when it names none
RemoteAyahOf(reference) ==
    IF reference.type = "number" THEN (IF reference.n \in {1, 2} THEN reference.n ELSE 0)
    ELSE LET parts == splitColon(reference.s)
         IN  IF Len(parts) = 1
             THEN (IF NumberOf(parts[1]) \in {1, 2} THEN NumberOf(parts[1]) ELSE 0)
             ELSE IF NumberOf(parts[1]) = 1 /\ NumberOf(parts[2]) \in {1, 2}
                  THEN NumberOf(parts[2]) ELSE 0

RemoteHadithsPage(filters) ==
    LET matches == (fstr(filters, "book") \in {"", "sahih-bukhari"})
                     /\ (fstr(filters, "hadithNumber") \in {"", "1"})
                     /\ (fstr(filters, "hadithEnglish") \in {"", "h-en1"})
        data == IF matches THEN <<RemoteHadith>> ELSE <<>>
    IN  [data |-> data, pagination |-> defaultPagination(data)]

RemoteHas(req) ==
    CASE req.op = "getSurah" -> req.surahNumber = 1
      [] req.op = "getSurahMultipleEditions" -> req.surahNumber = 1
      [] req.op = "getAyah" -> RemoteAyahOf(req.reference) # 0
      [] req.op = "getAyahMultipleEditions" -> RemoteAyahOf(req.reference) # 0
      [] req.op = "getJuz" -> req.juzNumber = 1
      [] req.op = "getHadithById" -> req.id = 1
      [] OTHER -> TRUE

\* response.data.data (Quran) / response.data.books, .hadiths, .hadith (Hadith)
RemoteData(req) ==
    CASE req.op = "getSurahsList" -> <<RemoteSurah(DEFAULT_ARABIC_EDITION)>>
      [] req.op = "getSurah" -> RemoteSurah(editionIdOf(req.edition))
      [] req.op = "getSurahMultipleEditions" ->
            [e \in {req.editions[k] : k \in 1..Len(req.editions)} |-> RemoteSurah(e)]
      [] req.op = "getAyah" ->
            RemoteAyah(RemoteAyahOf(req.reference), editionIdOf(req.edition))
      [] req.op = "getAyahMultipleEditions" ->
            [e \in {req.editions[k] : k \in 1..Len(req.editions)} |->
                RemoteAyah(RemoteAyahOf(req.reference), e)]
      [] req.op = "getJuz" ->
            LET all == <<RemoteAyah(1, editionIdOf(req.edition)),
                         RemoteAyah(2, editionIdOf(req.edition))>>
                r1 == IF req.offset # 0 THEN sliceFrom(all, req.offset) ELSE all
            IN  IF req.limit # 0 THEN sliceTo(r1, req.limit) ELSE r1
      [] req.op = "getSajdaAyahs" -> <<RemoteAyah(2, editionIdOf(req.edition))>>
      [] req.op = "searchQuran" -> <<RemoteAyah(1, EnAsad)>>
      [] req.op = "getEditions" -> <<RemoteEdition>>
      [] req.op = "getMeta" -> RemoteMeta
      [] req.op = "getBooks" -> <<RemoteBook>>
      [] req.op = "getHadiths" -> RemoteHadithsPage(req.filters)
      [] req.op = "getHadithById" -> RemoteHadith

\* how a remote call can end: data, a 200 answer without data, a 404, a
\* network error, or no response at all
RemoteOutcomes(req) ==
    (IF RemoteHas(req) THEN {"ok"} ELSE {})
        \cup {"empty", "error", "noResponse"}
        \cup (IF req.op = "getHadithById" THEN {"404"} ELSE {})

(***************************************************************************)
(* The resolver, one step per await                                        *)
(***************************************************************************)
AllCallers == {1, 2}

cacheKey(req) ==
    CASE req.op = "getSurahsList" -> getSurahsList_cacheKey
      [] req.op = "getSurah" -> getSurah_cacheKey(req.surahNumber, req.edition)
      [] req.op = "getSurahMultipleEditions" ->
            getSurahMultipleEditions_cacheKey(req.surahNumber, req.editions)
      [] req.op = "getAyah" -> getAyah_cacheKey(req.reference, req.edition)
      [] req.op = "getAyahMultipleEditions" ->
            getAyahMultipleEditions_cacheKey(req.reference, req.editions)
      [] req.op = "getJuz" ->
            getJuz_cacheKey(req.juzNumber, req.edition, req.offset, req.limit)
      [] req.op = "getSajdaAyahs" -> getSajdaAyahs_cacheKey(req.edition)
      [] req.op = "getEditions" -> getEditions_cacheKey(req.filters)
      [] req.op = "getMeta" -> getMeta_cacheKey
      [] req.op = "getBooks" -> getBooks_cacheKey
      [] req.op = "getHadiths" -> getHadiths_cacheKey(req.filters)
      [] req.op = "getHadithById" -> getHadithById_cacheKey(req.id)
      [] OTHER -> <<>>

\* a resolver that caches searches like everything else
usesCache_always(req) == TRUE

\* whether the invocation reads and writes the cache
usesCache(req) ==
    CASE req.op = "searchQuran" -> FALSE
      [] req.op = "getHadiths" -> isNonSearch(req.filters)
      [] OTHER -> TRUE

\* remote-sourced entries that expire before the fallback-sourced ones
remoteTTL_short(op) == 1800

\* the expiry of the redisSet on the remote-success path
remoteTTL(op) ==
    CASE op = "getSurahsList" -> 86400
      [] op = "getSurah" -> 43200
      [] op = "getSurahMultipleEditions" -> 43200
      [] op = "getAyah" -> 86400
      [] op = "getAyahMultipleEditions" -> 86400
      [] op = "getJuz" -> 43200
      [] op = "getSajdaAyahs" -> 86400
      [] op = "getEditions" -> 86400
      [] op = "getMeta" -> 86400
      [] op = "getBooks" -> 86400
      [] op = "getHadiths" -> 43200
      [] op = "getHadithById" -> 86400
      [] OTHER -> 0

\* the value a resolver makes of the remote data
remoteValue(req) ==
    CASE req.op = "getSurahsList" -> getSurahsList_remote(RemoteData(req))
      [] req.op = "getHadiths" ->
            [hadiths |-> RemoteData(req).data, pagination |-> RemoteData(req).pagination]
      [] OTHER -> RemoteData(req)

fallback(req, m, up) ==
    CASE req.op = "getSurahsList" -> getSurahsList_fallback(m, up)
      [] req.op = "getSurah" -> getSurah_fallback(m, up, req.surahNumber, req.edition)
      [] req.op = "getSurahMultipleEditions" ->
            getSurahMultipleEditions_fallback(m, up, req.surahNumber, req.editions)
      [] req.op = "getAyah" -> getAyah_fallback(m, up, req.reference, req.edition)
      [] req.op = "getAyahMultipleEditions" ->
            getAyahMultipleEditions_fallback(m, up, req.reference, req.editions)
      [] req.op = "getJuz" ->
            getJuz_fallback(m, up, req.juzNumber, req.edition, req.offset, req.limit)
      [] req.op = "getSajdaAyahs" -> getSajdaAyahs_fallback(m, up, req.edition)
      [] req.op = "searchQuran" ->
            searchQuran_fallback(m, up, req.keyword, req.surah, req.edition, req.language)
      [] req.op = "getBooks" -> getBooks_fallback(m, up)
      [] req.op = "getHadiths" -> getHadiths_fallback(m, up, req.filters)
      [] req.op = "getHadithById" -> getHadithById_fallback(m, up, req.id)
      [] OTHER -> FbNone

\* the return after the fallback found nothing
notFoundResult(req) ==
    CASE req.op \in {"getSurah", "getAyah", "getHadithById"} -> Null
      [] OTHER -> Val(<<>>)

\* the outer catch: getSurahsList, getBooks and getHadiths rethrow
errorResult(req) ==
    CASE req.op \in {"getSurahsList", "getBooks", "getHadiths", "getEditions"} -> Thrown
      [] req.op \in {"getSurah", "getAyah", "getHadithById", "getMeta"} -> Null
      [] OTHER -> Val(<<>>)

NoPending == [kind |-> "none"]
NoResult == [kind |-> "none"]

Idle ==
    [pc |-> "idle", req |-> NoReq, outer |-> NoReq, pending |-> NoPending,
     result |-> NoResult, path |-> "none", remoteCalls |-> 0, mirrorQueries |-> 0,
     remoteOuts |-> <<>>, cached |-> Miss, wrote |-> <<>>, logged |-> <<>>]

NoRedisCall == [call |-> "none"]

\* a resolver that ignores what the cache returned
cachedTruthy_ignored(cached) == FALSE

\* if (cached)
cachedTruthy(cached) == cached.hit

\* a resolver that takes a remote answer without data as final
afterRemoteFailure_final(req, out) ==
    IF out = "empty" THEN "done"
    ELSE IF req.op = "getHadithById" /\ out = "404" THEN "search" ELSE "mirror"

\* a resolver that repeats the request when its remote call brought no data
afterRemoteFailure_retry(req, out) == "remote"

\* where a resolver goes when its remote call brought no data
afterRemoteFailure(req, out) ==
    IF ~hasFallback(req.op) THEN "done"
    ELSE IF req.op = "getHadithById" /\ out \in {"404", "empty"} THEN "search"
    ELSE "mirror"

NoPrev == [req |-> NoReq, result |-> NoResult, stored |-> FALSE, live |-> FALSE]

\* a run issues one request repeatedly, or two requests whose keys are related
Workloads ==
    {{r} : r \in Requests}
    \cup {{[op |-> "getHadithById", id |-> 1],
           [op |-> "getHadiths", filters |-> getHadithById_search(1)]},
          {[op |-> "getAyah", reference |-> NumRef(2), edition |-> <<>>],
           [op |-> "getAyah", reference |-> StrRef(<<"2">>), edition |-> <<>>]},
          {[op |-> "getHadiths", filters |-> f] :
               f \in {<<SProp("book", "sahih-bukhari"), NProp("paginate", 1),
                        NProp("page", 1)>>,
                      <<NProp("paginate", 1), NProp("page", 1),
                        SProp("book", "sahih-bukhari")>>}},
          {[op |-> "getSurah", surahNumber |-> 1, edition |-> EnAsad],
           [op |-> "getSurahMultipleEditions", surahNumber |-> 1,
            editions |-> <<DEFAULT_ARABIC_EDITION, EnAsad>>]},
          {[op |-> "getHadiths", filters |-> <<SProp("hadithNumber", "2")>>],
           [op |-> "getHadiths", filters |-> <<SProp("hadithEnglish", "h-en1")>>]},
          {[op |-> "getSurahsList"],
           [op |-> "searchQuran", keyword |-> "en1", surah |-> 0, edition |-> EnAsad,
            language |-> <<"en">>]}}

(***************************************************************************)
(* Connection establishment (config/database.ts)                           *)
(***************************************************************************)
Stores == {"redis", "mongo"}

\* attempts < 10 in connectRedis, attempts < 20 in connectMongoDB: the
\* number of 100 ms sleeps a caller spends waiting for another caller's attempt
waitLimit(s) == IF s = "redis" THEN 10 ELSE 20

\* connectRedis races connect() against a 3000 ms timer of its own and
\* returns when the timer wins; connectMongoDB awaits mongoose.connect()
hasRaceTimeout(s) == s = "redis"

\* connectMongoDB tests readyState inside the wait loop, connectRedis tests
\* isOpen once after it
checksInsideLoop(s) == s = "mongo"

MaxOrphans == 1

\* no seeding script is running
NoSeed ==
    [job |-> "none", pc |-> "idle", retries |-> 0, book |-> 0, page |-> 0,
     attempts |-> 0, exit |-> "none", exhausted |-> {}, inserted |-> <<>>,
     before |-> <<>>, english |-> FALSE, runs |-> 0]

\* no chapter call has been made; listed is what the last getChaptersByBook
\* returned, for the book listedBook
NoChap ==
    [pc |-> "idle", op |-> "none", bookSlug |-> "", paginate |-> 0, page |-> 0,
     sequentialId |-> 0, sortedChapters |-> <<>>, result |-> NoResult,
     listed |-> <<>>, listedBook |-> ""]

\* callers of initializeServices and requests passing ensureInitialized
BootCallers == {1}
BootRequests == {1, 2}

\* the serverless module before its initialization starts: initialized,
\* initializationPromise, initializationError; body is where the
\* initialization body stands, t, tdb and tpc the seconds its timers have run
NoBoot ==
    [initialized |-> FALSE, initializationPromise |-> "null",
     initializationError |-> FALSE, body |-> "none", runs |-> 0,
     t |-> 0, tdb |-> 0, tpc |-> 0,
     callers |-> [c \in BootCallers |-> "idle"],
     reqs |-> [r \in BootRequests |-> [pc |-> "none", waited |-> 0, settled |-> FALSE]]]

NotConnecting ==
    [pc |-> "idle", store |-> "none", attempts |-> 0, waitedOut |-> FALSE,
     result |-> "none"]

Init ==
    /\ redisMode \in RedisModes
    /\ redisIsOpen = FALSE
    /\ store = <<>>
    /\ mongoUp \in BOOLEAN
    /\ mirror \in {SeededMirror, EmptyMirror}
    /\ inv = [i \in AllCallers |-> Idle]
    /\ prev = [i \in AllCallers |-> NoPrev]
    /\ calls = 0
    /\ workload \in Workloads
    /\ lastRedis = NoRedisCall
    /\ connecting = [s \in Stores |-> FALSE]
    /\ connected = [s \in Stores |-> FALSE]
    /\ orphans = [s \in Stores |-> 0]
    /\ cc = [i \in AllCallers |-> NotConnecting]
    /\ seed = NoSeed
    /\ chap = NoChap
    /\ boot = NoBoot

\* a resolver that logs nothing
pathLog_silent(src) == <<>>

\* what a resolver logs about the path just before it returns a value:
\* logger.info(`Fetched ... from database (fallback)`) on the fallback
\* path, nothing after a cache hit or a provider answer
pathLog(src) == IF src = "fallback" THEN <<"fallback">> ELSE <<>>

\* a caller invokes a resolver
Call(i, req) ==
    /\ inv[i].pc = "idle"
    /\ calls < MaxCalls
    /\ calls' = calls + 1
    /\ inv' = [inv EXCEPT ![i] =
                  [Idle EXCEPT !.req = req,
                               !.pc = IF usesCache(req) THEN "cacheCheck" ELSE "remote"]]
    /\ UNCHANGED <<redisMode, redisIsOpen, store, mongoUp, mirror, prev, workload, lastRedis>>
    /\ UNCHANGED connVars
    /\ UNCHANGED jobVars

\* const cached = await redisGet(cacheKey); if (cached) return JSON.parse(cached)
CacheCheck(i) ==
    /\ inv[i].pc = "cacheCheck"
    /\ \E conn \in ConnectOutcomes(redisMode), cmd \in CommandOutcomes(redisMode) :
          LET c == inv[i]
              k == cacheKey(c.req)
              r == redisGet(k, store, redisIsOpen, conn, cmd)
              top == [c EXCEPT !.cached = IF c.outer.op = "none" THEN r.ret ELSE c.cached]
          IN  /\ redisIsOpen' = r.isOpen
              /\ lastRedis' = [call |-> "get", by |-> i, key |-> k, wasOpen |-> redisIsOpen,
                               conn |-> conn, cmd |-> cmd, held |-> k \in DOMAIN store,
                               ret |-> r.ret, threw |-> r.threw]
              /\ inv' = [inv EXCEPT ![i] =
                    IF r.threw
                    THEN [c EXCEPT !.pc = "done", !.result = errorResult(c.req)]
                    ELSE IF cachedTruthy(r.ret)
                    THEN [top EXCEPT !.pc = "done", !.result = Val(JSONparse(r.ret.s)),
                                     !.path = "cache",
                                     !.logged = c.logged \o pathLog("cache")]
                    ELSE [top EXCEPT !.pc = "remote"]]
    /\ UNCHANGED <<redisMode, store, mongoUp, mirror, prev, calls, workload>>
    /\ UNCHANGED connVars
    /\ UNCHANGED jobVars

\* the axios.get of the resolver and the branch on its response
RemoteAttempt(i) ==
    /\ inv[i].pc = "remote"
    /\ \E answer \in RemoteOutcomes(inv[i].req) :
          inv' = [inv EXCEPT ![i] =
              LET c == inv[i]
                  \* the 5 s timer rejects a call that got no response
                  out == IF answer = "noResponse" /\ hasTimeout(c.req.op)
                         THEN "timeout" ELSE answer
                  a == [c EXCEPT !.remoteCalls = c.remoteCalls + 1,
                                 !.remoteOuts = Append(c.remoteOuts, out)]
              IN  IF out = "noResponse"
                  THEN [a EXCEPT !.pc = "awaitRemote"]
                  ELSE IF out = "ok"
                  THEN IF usesCache(a.req)
                       THEN [a EXCEPT !.pc = "cacheWrite",
                                      !.pending = [kind |-> "value",
                                                   value |-> remoteValue(a.req),
                                                   ttl |-> remoteTTL(a.req.op),
                                                   src |-> "remote"]]
                       ELSE [a EXCEPT !.pc = "done", !.path = "remote",
                                      !.result = Val(remoteValue(a.req)),
                                      !.logged = c.logged \o pathLog("remote")]
                  ELSE IF afterRemoteFailure(a.req, out) = "search"
                  THEN \* getHadiths({ hadithNumber: id.toString(), paginate: 1 })
                       [a EXCEPT !.pc = "cacheCheck", !.outer = a.req,
                                 !.req = [op |-> "getHadiths",
                                          filters |-> getHadithById_search(a.req.id)]]
                  ELSE IF afterRemoteFailure(a.req, out) = "done"
                  THEN [a EXCEPT !.pc = "done", !.result = errorResult(a.req)]
                  ELSE [a EXCEPT !.pc = afterRemoteFailure(a.req, out)]]
    /\ UNCHANGED <<redisMode, redisIsOpen, store, mongoUp, mirror, prev, calls, workload, lastRedis>>
    /\ UNCHANGED connVars
    /\ UNCHANGED jobVars

\* a fallback that would store what it rebuilt (a read-through mirror)
mirrorAfterQuery_seeds(m, req) == SeededMirror

\* the collections after the queries of a fallback: Surah.find / findOne,
\* Hadith.find / findOne / distinct / countDocuments only read, and no
\* document they return is saved
mirrorAfterQuery(m, req) == m

\* the fallback to the database
MirrorQuery(i) ==
    /\ inv[i].pc = "mirror"
    /\ LET fb == fallback(inv[i].req, mirror, mongoUp)
           c == inv[i]
           a == [c EXCEPT !.mirrorQueries = c.mirrorQueries + fb.queries]
       IN  inv' = [inv EXCEPT ![i] =
                  CASE fb.kind = "value" ->
                         IF usesCache(a.req)
                         THEN [a EXCEPT !.pc = "cacheWrite",
                                        !.pending = [kind |-> "value", value |-> fb.value,
                                                     ttl |-> fb.ttl, src |-> "fallback"]]
                         ELSE [a EXCEPT !.pc = "done", !.path = "fallback",
                                        !.result = Val(fb.value),
                                        !.logged = c.logged \o pathLog("fallback")]
                    [] fb.kind = "notfound" ->
                         [a EXCEPT !.pc = "done", !.result = notFoundResult(a.req)]
                    [] OTHER ->
                         [a EXCEPT !.pc = "done", !.result = errorResult(a.req)]]
    /\ mirror' = mirrorAfterQuery(mirror, inv[i].req)
    /\ UNCHANGED <<redisMode, redisIsOpen, store, mongoUp, prev, calls, workload, lastRedis>>
    /\ UNCHANGED connVars
    /\ UNCHANGED jobVars

\* await redisSet(cacheKey, JSON.stringify(value), ttl); return value
CacheWrite(i) ==
    /\ inv[i].pc = "cacheWrite"
    /\ \E conn \in ConnectOutcomes(redisMode), cmd \in CommandOutcomes(redisMode) :
          LET c == inv[i]
              p == c.pending
              k == cacheKey(c.req)
              r == redisSet(k, JSONstringify(p.value), p.ttl, store, redisIsOpen, conn, cmd)
          IN  /\ redisIsOpen' = r.isOpen
              /\ store' = r.store
              /\ lastRedis' = [call |-> "set", by |-> i, key |-> k, wasOpen |-> redisIsOpen,
                               conn |-> conn, cmd |-> cmd, value |-> JSONstringify(p.value),
                               ttl |-> p.ttl, before |-> store, after |-> r.store,
                               ret |-> r.ret,
                               threw |-> r.threw]
              /\ inv' = [inv EXCEPT ![i] =
                    IF r.threw
                    THEN IF p.src = "remote"
                         THEN [c EXCEPT !.pc = "mirror", !.pending = NoPending]
                         ELSE [c EXCEPT !.pc = "done", !.pending = NoPending,
                                        !.result = errorResult(c.req)]
                    ELSE [c EXCEPT !.pc = "done", !.pending = NoPending,
                                   !.result = Val(p.value), !.path = p.src,
                                   \* getHadithById storing what its search
                                   \* found logs nothing of its own
                                   !.logged = IF c.path = "none"
                                              THEN c.logged \o pathLog(p.src)
                                              ELSE c.logged,
                                   !.wrote = Append(c.wrote,
                                                [op |-> c.req.op, key |-> k,
                                                 ttl |-> p.ttl, src |-> p.src,
                                                 ok |-> r.ret])]]
    /\ UNCHANGED <<redisMode, mongoUp, mirror, prev, calls, workload>>
    /\ UNCHANGED connVars
    /\ UNCHANGED jobVars

\* getHadithById takes up the result of its getHadiths search
ResumeHadithById(i) ==
    /\ inv[i].pc = "done"
    /\ inv[i].outer.op # "none"
    /\ inv' = [inv EXCEPT ![i] =
          LET c == inv[i]
              r == c.result
              a == [c EXCEPT !.req = c.outer, !.outer = NoReq, !.result = NoResult]
          IN  IF r.kind = "value" /\ Len(r.v.hadiths) > 0
              THEN [a EXCEPT !.pc = "cacheWrite",
                             !.pending = [kind |-> "value", value |-> r.v.hadiths[1],
                                          ttl |-> 86400,
                                          src |-> IF c.path = "fallback"
                                                  THEN "fallback" ELSE "remote"]]
              ELSE [a EXCEPT !.pc = "mirror", !.path = "none"]]
    /\ UNCHANGED <<redisMode, redisIsOpen, store, mongoUp, mirror, prev, calls, workload, lastRedis>>
    /\ UNCHANGED connVars
    /\ UNCHANGED jobVars

\* the resolver returns to its caller
Return(i) ==
    /\ inv[i].pc = "done"
    /\ inv[i].outer.op = "none"
    /\ prev' = [prev EXCEPT ![i] =
                   [req |-> inv[i].req, result |-> inv[i].result,
                    stored |-> /\ cacheKey(inv[i].req) \in DOMAIN store
                               /\ \/ inv[i].cached.hit
                                  \/ /\ inv[i].wrote # <<>>
                                     /\ inv[i].wrote[Len(inv[i].wrote)].ok,
                    live |-> TRUE]]
    /\ inv' = [inv EXCEPT ![i] = Idle]
    /\ UNCHANGED <<redisMode, redisIsOpen, store, mongoUp, mirror, calls, workload, lastRedis>>
    /\ UNCHANGED connVars
    /\ UNCHANGED jobVars

\* Redis drops a key whose TTL has run out
Expire(k) ==
    /\ k \in DOMAIN store
    /\ store' = [x \in DOMAIN store \ {k} |-> store[x]]
    /\ prev' = [i \in AllCallers |->
                   IF prev[i].req.op # "none" /\ cacheKey(prev[i].req) = k
                   THEN [prev[i] EXCEPT !.live = FALSE] ELSE prev[i]]
    /\ UNCHANGED <<redisMode, redisIsOpen, mongoUp, mirror, inv, calls, workload, lastRedis>>
    /\ UNCHANGED connVars
    /\ UNCHANGED jobVars

\* the client stops reconnecting (reconnectStrategy returns an Error)
RedisGiveUp ==
    /\ redisMode = "down"
    /\ redisIsOpen
    /\ redisIsOpen' = FALSE
    /\ UNCHANGED <<redisMode, store, mongoUp, mirror, inv, prev, calls, workload, lastRedis>>
    /\ UNCHANGED connVars
    /\ UNCHANGED jobVars

Next ==
    \/ \E req \in workload : Call(1, req)
    \/ CacheCheck(1)
    \/ RemoteAttempt(1)
    \/ MirrorQuery(1)
    \/ CacheWrite(1)
    \/ ResumeHadithById(1)
    \/ Return(1)
    \/ \E k \in DOMAIN store : Expire(k)
    \/ RedisGiveUp

Spec == Init /\ [][Next]_vars

\* a step of caller i's resolver call: the continuation of an await
Step(i) ==
    \/ CacheCheck(i) \/ RemoteAttempt(i) \/ MirrorQuery(i) \/ CacheWrite(i)
    \/ ResumeHadithById(i) \/ Return(i)

\* where each caller's resolver call stands; every step changes it
pcs == [i \in AllCallers |-> inv[i].pc]

\* the event loop runs every continuation that is ready
LiveSpec == Init /\ [][Next]_vars /\ WF_pcs(Step(1))

(***************************************************************************)
(* Concurrent requests: two resolver calls interleave at their awaits      *)
(***************************************************************************)
\* both callers ask for the same thing
ConcWorkloads ==
    {{[op |-> "getSurah", surahNumber |-> 1, edition |-> EnAsad]},
     {[op |-> "getHadithById", id |-> 1]}}

\* calls started in a run of the concurrent specification
MaxConcCalls == 2

ConcInit ==
    /\ redisMode \in {"up", "down"}
    /\ redisIsOpen = FALSE
    /\ store = <<>>
    /\ mongoUp \in BOOLEAN
    /\ mirror \in {SeededMirror, EmptyMirror}
    /\ inv = [i \in AllCallers |-> Idle]
    /\ prev = [i \in AllCallers |-> NoPrev]
    /\ calls = 0
    /\ workload \in ConcWorkloads
    /\ lastRedis = NoRedisCall
    /\ connecting = [s \in Stores |-> FALSE]
    /\ connected = [s \in Stores |-> FALSE]
    /\ orphans = [s \in Stores |-> 0]
    /\ cc = [i \in AllCallers |-> NotConnecting]
    /\ seed = NoSeed
    /\ chap = NoChap
    /\ boot = NoBoot

ConcNext ==
    \/ \E i \in AllCallers, req \in workload : calls < MaxConcCalls /\ Call(i, req)
    \/ \E i \in AllCallers : Step(i)
    \/ \E k \in DOMAIN store : Expire(k)

ConcSpec == ConcInit /\ [][ConcNext]_vars

(***************************************************************************)
(* connectRedis / connectMongoDB step by step.  A step is what runs        *)
(* between two awaits: JavaScript runs it without interleaving.            *)
(***************************************************************************)
\* connect() calls of store s that have not settled
inFlight(s) ==
    orphans[s] + Cardinality({i \in AllCallers : cc[i].pc = "connecting" /\ cc[i].store = s})

\* what ensure...Connected returns after connect... returned or threw
returned(i, available) ==
    [NotConnecting EXCEPT !.store = cc[i].store,
                          !.result = IF available THEN "available" ELSE "unavailable"]

\* the wait loop is left without a connection: the caller goes on to
\* `connecting = true` and connect(), whether the flag was still set or not
waiterStartsOwnAttempt(i, s, stillConnecting) ==
    /\ connecting' = [connecting EXCEPT ![s] = TRUE]
    /\ cc' = [cc EXCEPT ![i] = [pc |-> "connecting", store |-> s, attempts |-> 0,
                                waitedOut |-> stillConnecting, result |-> "none"]]

\* ensureRedisConnected / ensureMongoDBConnected up to the first await of
\* connectRedis / connectMongoDB
ensureConnected(i, s) ==
    /\ cc[i].pc = "idle"
    /\ IF connected[s]
       THEN /\ cc' = [cc EXCEPT ![i] = [NotConnecting EXCEPT !.store = s, !.result = "available"]]
            /\ UNCHANGED connecting
       ELSE IF connecting[s]
       THEN /\ cc' = [cc EXCEPT ![i] = [NotConnecting EXCEPT !.pc = "waiting", !.store = s]]
            /\ UNCHANGED connecting
       ELSE /\ connecting' = [connecting EXCEPT ![s] = TRUE]
            /\ cc' = [cc EXCEPT ![i] = [NotConnecting EXCEPT !.pc = "connecting", !.store = s]]
    /\ UNCHANGED <<connected, orphans>>
    /\ UNCHANGED <<redisMode, redisIsOpen, store, mongoUp, mirror, inv, prev, calls, workload, lastRedis>>
    /\ UNCHANGED jobVars

\* one 100 ms sleep of the wait loop ends
waitTick(i) ==
    LET s == cc[i].store
        n == cc[i].attempts + 1
    IN  /\ cc[i].pc = "waiting"
        /\ IF checksInsideLoop(s) /\ connected[s]
           THEN \* return inside the loop; finally clears the flag
                /\ connecting' = [connecting EXCEPT ![s] = FALSE]
                /\ cc' = [cc EXCEPT ![i] = returned(i, TRUE)]
           ELSE IF connecting[s] /\ n < waitLimit(s)
           THEN /\ cc' = [cc EXCEPT ![i].attempts = n]
                /\ UNCHANGED connecting
           ELSE IF ~checksInsideLoop(s) /\ connected[s]
           THEN \* return after the loop; finally clears the flag
                /\ connecting' = [connecting EXCEPT ![s] = FALSE]
                /\ cc' = [cc EXCEPT ![i] = returned(i, TRUE)]
           ELSE waiterStartsOwnAttempt(i, s, connecting[s])
        /\ UNCHANGED <<connected, orphans>>
        /\ UNCHANGED <<redisMode, redisIsOpen, store, mongoUp, mirror, inv, prev, calls, workload, lastRedis>>
        /\ UNCHANGED jobVars

\* the connect() call the caller awaits settles
connectSettles(i, ok) ==
    LET s == cc[i].store
    IN  /\ cc[i].pc = "connecting"
        /\ connected' = [connected EXCEPT ![s] = @ \/ ok]
        /\ connecting' = [connecting EXCEPT ![s] = FALSE]
        /\ cc' = [cc EXCEPT ![i] =
                    returned(i, IF ok THEN TRUE
                                ELSE IF s = "mongo" THEN FALSE   \* connectMongoDB rethrows
                                ELSE connected[s])]               \* return redisClient.isOpen
        /\ UNCHANGED orphans
        /\ UNCHANGED <<redisMode, redisIsOpen, store, mongoUp, mirror, inv, prev, calls, workload, lastRedis>>
        /\ UNCHANGED jobVars

\* connectRedis's own 3000 ms timer wins the race: the caller returns, the
\* connect() call stays pending
raceTimeout(i) ==
    LET s == cc[i].store
    IN  /\ cc[i].pc = "connecting"
        /\ hasRaceTimeout(s)
        /\ orphans[s] < MaxOrphans
        /\ orphans' = [orphans EXCEPT ![s] = @ + 1]
        /\ connecting' = [connecting EXCEPT ![s] = FALSE]
        /\ cc' = [cc EXCEPT ![i] = returned(i, connected[s])]
        /\ UNCHANGED connected
        /\ UNCHANGED <<redisMode, redisIsOpen, store, mongoUp, mirror, inv, prev, calls, workload, lastRedis>>
        /\ UNCHANGED jobVars

\* a connect() call nobody awaits any more settles
orphanSettles(s, ok) ==
    /\ orphans[s] > 0
    /\ orphans' = [orphans EXCEPT ![s] = @ - 1]
    /\ connected' = [connected EXCEPT ![s] = @ \/ ok]
    /\ UNCHANGED <<connecting, cc>>
    /\ UNCHANGED <<redisMode, redisIsOpen, store, mongoUp, mirror, inv, prev, calls, workload, lastRedis>>
    /\ UNCHANGED jobVars

ConnInit ==
    /\ redisMode = "up"
    /\ redisIsOpen = FALSE
    /\ store = <<>>
    /\ mongoUp = TRUE
    /\ mirror = SeededMirror
    /\ inv = [i \in AllCallers |-> Idle]
    /\ prev = [i \in AllCallers |-> NoPrev]
    /\ calls = 0
    /\ workload = {}
    /\ lastRedis = NoRedisCall
    /\ connecting = [s \in Stores |-> FALSE]
    /\ connected = [s \in Stores |-> FALSE]
    /\ orphans = [s \in Stores |-> 0]
    /\ cc = [i \in AllCallers |-> NotConnecting]
    /\ seed = NoSeed
    /\ chap = NoChap
    /\ boot = NoBoot

ConnNext ==
    \/ \E i \in AllCallers, s \in Stores : ensureConnected(i, s)
    \/ \E i \in AllCallers : waitTick(i)
    \/ \E i \in AllCallers, ok \in BOOLEAN : connectSettles(i, ok)
    \/ \E i \in AllCallers : raceTimeout(i)
    \/ \E s \in Stores, ok \in BOOLEAN : orphanSettles(s, ok)

ConnSpec == ConnInit /\ [][ConnNext]_vars

(***************************************************************************)
(* Single-edition and multi-edition resolvers over one key space           *)
(* (controllers/quranController.ts 41-57, 83-100: ?edition= and ?editions= *)
(* reach the resolvers unvalidated)                                        *)
(***************************************************************************)
\* ?edition=multi:en.asad
MultiEnAsad == <<"multi", ":", "en.", "asad">>

KeyWorkloads ==
    {{[op |-> "getSurah", surahNumber |-> 1, edition |-> MultiEnAsad],
      [op |-> "getSurahMultipleEditions", surahNumber |-> 1, editions |-> <<EnAsad>>]},
     {[op |-> "getAyah", reference |-> StrRef(<<"1", ":", "2">>), edition |-> MultiEnAsad],
      [op |-> "getAyahMultipleEditions", reference |-> StrRef(<<"1", ":", "2">>),
       editions |-> <<EnAsad>>]},
     {[op |-> "getHadithById", id |-> 1]}}

KeyInit ==
    /\ redisMode = "up"
    /\ redisIsOpen = FALSE
    /\ store = <<>>
    /\ mongoUp \in BOOLEAN
    /\ mirror \in {SeededMirror, EmptyMirror}
    /\ inv = [i \in AllCallers |-> Idle]
    /\ prev = [i \in AllCallers |-> NoPrev]
    /\ calls = 0
    /\ workload \in KeyWorkloads
    /\ lastRedis = NoRedisCall
    /\ connecting = [s \in Stores |-> FALSE]
    /\ connected = [s \in Stores |-> FALSE]
    /\ orphans = [s \in Stores |-> 0]
    /\ cc = [i \in AllCallers |-> NotConnecting]
    /\ seed = NoSeed
    /\ chap = NoChap
    /\ boot = NoBoot

KeySpec == KeyInit /\ [][ConcNext]_vars

(***************************************************************************)
(* Chapters of a collection (getSortedChaptersForBook, getChaptersByBook,  *)
(* getChapterNameBySequentialId; controllers/hadithController.ts 179-235)  *)
(***************************************************************************)
\* onError / onNull of the $convert, and the $ifNull default
noHadithNumber == 999999

\* a document of the hadiths collection as the seeding job writes it
\* (chapter: apiHadith.chapter?.chapterEnglish || '')
ChapterDoc(collectionName, chapter, hadithNumber) ==
    [collectionName |-> collectionName, chapter |-> chapter,
     hadithNumber |-> hadithNumber]

\* hadiths collections the chapter calls run against
ChapterMirrors ==
    {<<ChapterDoc("sahih-bukhari", "Faith", "1"), ChapterDoc("sahih-bukhari", "Faith", "2"),
       ChapterDoc("sahih-bukhari", "Prayer", "3"), ChapterDoc("sahih-muslim", "Zakat", "1")>>,
     <<ChapterDoc("sahih-bukhari", "Prayer", "2"), ChapterDoc("sahih-bukhari", "", "1"),
       ChapterDoc("sahih-bukhari", "Faith", "3")>>,
     <<ChapterDoc("sahih-bukhari", "Faith", "1"), ChapterDoc("sahih-bukhari", "", "2"),
       ChapterDoc("sahih-muslim", "Zakat", "1")>>,
     <<ChapterDoc("sahih-bukhari", "Faith", "x"), ChapterDoc("sahih-bukhari", "Prayer", "y")>>}

ChapBooks == {"sahih-bukhari", "sahih-muslim"}

\* ?paginate= and ?page= of the chapter lists asked for (0: not given)
ChapPages == {[paginate |-> 0, page |-> 0], [paginate |-> 1, page |-> 2]}

\* $convert: { input: "$hadithNumber", to: "int", onError: 999999 }
hadithNumberNum(doc) ==
    IF Number(doc.hadithNumber) >= 0 THEN Number(doc.hadithNumber) ELSE noHadithNumber

\* $match + $group: the chapters of a collection, each with $min of its numbers
chaptersOf(hadiths, bookSlug) ==
    {hadiths[k].chapter : k \in {j \in 1..Len(hadiths) :
                                    hadiths[j].collectionName = bookSlug}}

minHadithNumber(hadiths, bookSlug, chapter) ==
    LET nums == {hadithNumberNum(hadiths[k]) :
                    k \in {j \in 1..Len(hadiths) :
                              /\ hadiths[j].collectionName = bookSlug
                              /\ hadiths[j].chapter = chapter}}
    IN  CHOOSE n \in nums : \A o \in nums : n <= o

\* $sort: { minHadithNumber: 1 }: every order of the groups that is ascending
\* in minHadithNumber; groups with equal keys come in any order
sortedChaptersOrders(hadiths, bookSlug) ==
    LET cs == chaptersOf(hadiths, bookSlug)
        n == Cardinality(cs)
    IN  {s \in [1..n -> cs] :
            /\ \A a, b \in 1..n : a # b => s[a] # s[b]
            /\ \A a, b \in 1..n :
                  a < b => minHadithNumber(hadiths, bookSlug, s[a])
                             <= minHadithNumber(hadiths, bookSlug, s[b])}

getSortedChaptersForBook_cacheKey(bookSlug) ==
    <<"hadith", ":", "sorted-chapters", ":", bookSlug, ":", "v2">>

\* paginate || 25, page || 1
limitOf(paginate) == IF paginate = 0 THEN 25 ELSE paginate
currentPageOf(page) == IF page = 0 THEN 1 ELSE page

getChaptersByBook_cacheKey(bookSlug, paginate, page) ==
    <<"hadith", ":", "chapters", ":", bookSlug, ":", numeral(limitOf(paginate)), ":",
      numeral(currentPageOf(page)), ":", "v4">>

\* Array.prototype.slice(start, end)
slice(arr, start, end) ==
    LET e == IF end < Len(arr) THEN end ELSE Len(arr)
    IN  IF start >= e THEN <<>> ELSE SubSeq(arr, start + 1, e)

\* the value getChaptersByBook builds from the sorted chapters
getChaptersByBook_result(sortedChapters, bookSlug, paginate, page) ==
    LET limit == limitOf(paginate)
        currentPage == currentPageOf(page)
        skip == (currentPage - 1) * limit
        total == Len(sortedChapters)
        paginatedChapters == slice(sortedChapters, skip, skip + limit)
    IN  [chapters |->
            [index \in 1..Len(paginatedChapters) |->
                [id |-> skip + index, chapterNumber |-> numeral(skip + index),
                 chapterEnglish |-> paginatedChapters[index],
                 chapterUrdu |-> "", chapterArabic |-> "", bookSlug |-> bookSlug]],
         pagination |->
            [current_page |-> currentPage, last_page |-> ceilDiv(total, limit),
             per_page |-> limit, total |-> total, from |-> skip + 1,
             to |-> IF skip + limit < total THEN skip + limit ELSE total]]

\* sortedChapters[index] || null
getChapterNameBySequentialId_result(sortedChapters, sequentialId) ==
    IF sequentialId \in 1..Len(sortedChapters) /\ sortedChapters[sequentialId] # ""
    THEN Val(sortedChapters[sequentialId]) ELSE Null

\* GET /:bookSlug/chapters
getChapters(bookSlug, paginate, page) ==
    /\ chap.pc \in {"idle", "done"}
    /\ chap' = [chap EXCEPT !.pc = "cacheCheck", !.op = "getChaptersByBook",
                            !.bookSlug = bookSlug, !.paginate = paginate,
                            !.page = page, !.sequentialId = 0,
                            !.sortedChapters = <<>>, !.result = NoResult]
    /\ UNCHANGED <<seed, boot>>
    /\ UNCHANGED resolverVars
    /\ UNCHANGED <<mongoUp, mirror>>
    /\ UNCHANGED connVars

\* GET /:bookSlug/chapters/:chapterNumber/hadiths up to the name of the chapter
getHadithsByChapter(bookSlug, sequentialId) ==
    /\ chap.pc \in {"idle", "done"}
    /\ chap' = [chap EXCEPT !.pc = "sortedCacheCheck",
                            !.op = "getChapterNameBySequentialId",
                            !.bookSlug = bookSlug, !.paginate = 0, !.page = 0,
                            !.sequentialId = sequentialId,
                            !.sortedChapters = <<>>, !.result = NoResult]
    /\ UNCHANGED <<seed, boot>>
    /\ UNCHANGED resolverVars
    /\ UNCHANGED <<mongoUp, mirror>>
    /\ UNCHANGED connVars

\* getChaptersByBook: const cached = await redisGet(cacheKey)
getChaptersByBook_cacheCheck ==
    /\ chap.pc = "cacheCheck"
    /\ \E conn \in ConnectOutcomes(redisMode), cmd \in CommandOutcomes(redisMode) :
          LET r == redisGet(getChaptersByBook_cacheKey(chap.bookSlug, chap.paginate,
                                                       chap.page),
                            store, redisIsOpen, conn, cmd)
          IN  /\ redisIsOpen' = r.isOpen
              /\ chap' = IF cachedTruthy(r.ret)
                         THEN [chap EXCEPT !.pc = "done",
                                           !.result = Val(JSONparse(r.ret.s)),
                                           !.listed = JSONparse(r.ret.s).chapters,
                                           !.listedBook = chap.bookSlug]
                         ELSE [chap EXCEPT !.pc = "sortedCacheCheck"]
    /\ UNCHANGED <<seed, boot>>
    /\ UNCHANGED <<redisMode, store, mongoUp, mirror, inv, prev, calls, workload, lastRedis>>
    /\ UNCHANGED connVars

\* getSortedChaptersForBook: const cached = await redisGet(cacheKey)
getSortedChaptersForBook_cacheCheck ==
    /\ chap.pc = "sortedCacheCheck"
    /\ \E conn \in ConnectOutcomes(redisMode), cmd \in CommandOutcomes(redisMode) :
          LET r == redisGet(getSortedChaptersForBook_cacheKey(chap.bookSlug),
                            store, redisIsOpen, conn, cmd)
          IN  /\ redisIsOpen' = r.isOpen
              /\ chap' = IF cachedTruthy(r.ret)
                         THEN [chap EXCEPT !.pc = "sorted",
                                           !.sortedChapters = JSONparse(r.ret.s)]
                         ELSE [chap EXCEPT !.pc = "aggregate"]
    /\ UNCHANGED <<seed, boot>>
    /\ UNCHANGED <<redisMode, store, mongoUp, mirror, inv, prev, calls, workload, lastRedis>>
    /\ UNCHANGED connVars

\* getSortedChaptersForBook: await Hadith.aggregate([...]); a failed query
\* rejects the call
getSortedChaptersForBook_aggregate ==
    /\ chap.pc = "aggregate"
    /\ IF mongoUp
       THEN \E sorted \in sortedChaptersOrders(mirror.hadiths, chap.bookSlug) :
               chap' = [chap EXCEPT !.pc = "store", !.sortedChapters = sorted]
       ELSE chap' = [chap EXCEPT !.pc = "done", !.result = Thrown]
    /\ UNCHANGED <<seed, boot>>
    /\ UNCHANGED resolverVars
    /\ UNCHANGED <<mongoUp, mirror>>
    /\ UNCHANGED connVars

\* getSortedChaptersForBook: await redisSet(cacheKey, JSON.stringify(sortedChapters), 3600)
getSortedChaptersForBook_store ==
    /\ chap.pc = "store"
    /\ \E conn \in ConnectOutcomes(redisMode), cmd \in CommandOutcomes(redisMode) :
          LET r == redisSet(getSortedChaptersForBook_cacheKey(chap.bookSlug),
                            JSONstringify(chap.sortedChapters), 3600,
                            store, redisIsOpen, conn, cmd)
          IN  /\ redisIsOpen' = r.isOpen
              /\ store' = r.store
    /\ chap' = [chap EXCEPT !.pc = "sorted"]
    /\ UNCHANGED <<seed, boot>>
    /\ UNCHANGED <<redisMode, mongoUp, mirror, inv, prev, calls, workload, lastRedis>>
    /\ UNCHANGED connVars

\* getChaptersByBook from the sorted chapters on: the result, stored when it
\* has entries, and returned
getChaptersByBook ==
    /\ chap.pc = "sorted"
    /\ chap.op = "getChaptersByBook"
    /\ LET result == getChaptersByBook_result(chap.sortedChapters, chap.bookSlug,
                                              chap.paginate, chap.page)
       IN  /\ chap' = [chap EXCEPT !.pc = "done", !.result = Val(result),
                                   !.listed = result.chapters,
                                   !.listedBook = chap.bookSlug]
           /\ IF Len(result.chapters) > 0
              THEN \E conn \in ConnectOutcomes(redisMode),
                      cmd \in CommandOutcomes(redisMode) :
                      LET r == redisSet(getChaptersByBook_cacheKey(chap.bookSlug,
                                            chap.paginate, chap.page),
                                        JSONstringify(result), 3600,
                                        store, redisIsOpen, conn, cmd)
                      IN  /\ redisIsOpen' = r.isOpen
                          /\ store' = r.store
              ELSE UNCHANGED <<redisIsOpen, store>>
    /\ UNCHANGED <<seed, boot>>
    /\ UNCHANGED <<redisMode, mongoUp, mirror, inv, prev, calls, workload, lastRedis>>
    /\ UNCHANGED connVars

\* getChapterNameBySequentialId from the sorted chapters on
getChapterNameBySequentialId ==
    /\ chap.pc = "sorted"
    /\ chap.op = "getChapterNameBySequentialId"
    /\ chap' = [chap EXCEPT !.pc = "done",
                            !.result = getChapterNameBySequentialId_result(
                                           chap.sortedChapters, chap.sequentialId)]
    /\ UNCHANGED <<seed, boot>>
    /\ UNCHANGED resolverVars
    /\ UNCHANGED <<mongoUp, mirror>>
    /\ UNCHANGED connVars

ChapInit ==
    /\ redisMode \in {"up", "down"}
    /\ redisIsOpen = FALSE
    /\ store = <<>>
    /\ mongoUp \in BOOLEAN
    /\ mirror \in {[surahs |-> <<>>, hadiths |-> hs] : hs \in ChapterMirrors}
    /\ inv = [i \in AllCallers |-> Idle]
    /\ prev = [i \in AllCallers |-> NoPrev]
    /\ calls = 0
    /\ workload = {}
    /\ lastRedis = NoRedisCall
    /\ connecting = [s \in Stores |-> FALSE]
    /\ connected = [s \in Stores |-> FALSE]
    /\ orphans = [s \in Stores |-> 0]
    /\ cc = [i \in AllCallers |-> NotConnecting]
    /\ seed = NoSeed
    /\ chap = NoChap
    /\ boot = NoBoot

ChapNext ==
    \/ \E bookSlug \in ChapBooks, pg \in ChapPages :
          getChapters(bookSlug, pg.paginate, pg.page)
    \/ \E bookSlug \in ChapBooks, sequentialId \in 1..3 :
          getHadithsByChapter(bookSlug, sequentialId)
    \/ getChaptersByBook_cacheCheck
    \/ getSortedChaptersForBook_cacheCheck
    \/ getSortedChaptersForBook_aggregate
    \/ getSortedChaptersForBook_store
    \/ getChaptersByBook
    \/ getChapterNameBySequentialId
    \/ \E k \in DOMAIN store : Expire(k)

ChapSpec == ChapInit /\ [][ChapNext]_vars

(***************************************************************************)
(* Serverless handler (api/index.ts): initializeServices, ensureInitialized *)
(* Time is counted in seconds; a timer fires when its seconds have run.    *)
(***************************************************************************)
\* setTimeout(..., 5000) of initTimeout
initTimeoutSeconds == 5
\* setTimeout(..., 3000) raced against connectDatabases()
databaseTimeoutSeconds == 3
\* setTimeout(..., 2000) raced against initializePinecone()
pineconeTimeoutSeconds == 2
\* setTimeout(resolve, 3000) of ensureInitialized
ensureWaitSeconds == 3

\* initialization bodies started in one process
MaxInitRuns == 2

\* a module that retries a failed initialization
initialized_onSuccessOnly(outcome) == outcome = "success"

\* the value of initialized after the initialization settled: the try block
\* and the catch block both set it
initialized_after(outcome) == TRUE

\* a middleware that waits for the initialization alone
waitEnds_noTimer(settled, waited) == settled

\* Promise.race([initializationPromise, 3 s timer]) has settled
waitEnds(settled, waited) == settled \/ waited >= ensureWaitSeconds

\* if (initializationPromise && !initialized)
ensureWaits(b) == b.initializationPromise # "null" /\ ~b.initialized

\* the initialization promise settles: try / catch / finally of the IIFE, and
\* everything awaiting the promise becomes runnable
settle(b, outcome) ==
    [b EXCEPT !.initialized = initialized_after(outcome),
              !.initializationError = (outcome # "success"),
              !.initializationPromise = "null",
              !.t = 0,
              !.reqs = [r \in BootRequests |->
                          IF b.reqs[r].pc = "waiting"
                          THEN [b.reqs[r] EXCEPT !.settled = TRUE] ELSE b.reqs[r]]]

\* initializationPromise = (async () => { ... })() up to its first await
startInitialization(b) ==
    [b EXCEPT !.initializationPromise = "pending", !.runs = b.runs + 1,
              !.body = "databases", !.t = 0, !.tdb = 0, !.tpc = 0]

bootOnly ==
    /\ UNCHANGED <<seed, chap>>
    /\ UNCHANGED resolverVars
    /\ UNCHANGED <<mongoUp, mirror>>
    /\ UNCHANGED connVars

\* a call of initializeServices(skipWait)
initializeServices(c, skipWait) ==
    /\ boot.callers[c] \in {"idle", "returned"}
    /\ IF boot.initialized
       THEN boot' = [boot EXCEPT !.callers[c] = "returned"]
       ELSE IF boot.initializationPromise # "null"
       THEN boot' = [boot EXCEPT !.callers[c] =
                                    IF skipWait THEN "returned" ELSE "awaiting"]
       ELSE /\ boot.runs < MaxInitRuns
            /\ boot' = [startInitialization(boot) EXCEPT !.callers[c] =
                                    IF skipWait THEN "returned" ELSE "awaiting"]
    /\ bootOnly

\* await initializationPromise of a caller comes back
initializeServices_resume(c) ==
    /\ boot.callers[c] = "awaiting"
    /\ boot.initializationPromise = "null"
    /\ boot' = [boot EXCEPT !.callers[c] = "returned"]
    /\ bootOnly

\* connectDatabases() settles or its 3 s timer fires; initializeFirebase();
\* initializePinecone() is called
databasesDone(byTimer) ==
    /\ boot.body = "databases"
    /\ byTimer => boot.tdb = databaseTimeoutSeconds
    /\ boot' = [boot EXCEPT !.body = "pinecone", !.tdb = 0, !.tpc = 0]
    /\ bootOnly

\* initializePinecone() settles or its 2 s timer fires: the body is through,
\* and the initialization succeeds unless initTimeout came first
pineconeDone(byTimer) ==
    /\ boot.body = "pinecone"
    /\ byTimer => boot.tpc = pineconeTimeoutSeconds
    /\ boot' = IF boot.initializationPromise # "null"
               THEN [settle(boot, "success") EXCEPT !.body = "done", !.tpc = 0]
               ELSE [boot EXCEPT !.body = "done", !.tpc = 0]
    /\ bootOnly

\* initTimeout rejects: the catch block
initTimeout ==
    /\ boot.initializationPromise # "null"
    /\ boot.t = initTimeoutSeconds
    /\ boot' = settle(boot, "timeout")
    /\ bootOnly

\* a request reaches ensureInitialized
ensureInitialized(r) ==
    /\ boot.reqs[r].pc \in {"none", "next"}
    /\ boot' = [boot EXCEPT !.reqs[r] =
                   IF ensureWaits(boot)
                   THEN [pc |-> "waiting", waited |-> 0, settled |-> FALSE]
                   ELSE [pc |-> "next", waited |-> 0, settled |-> FALSE]]
    /\ bootOnly

\* the race of a waiting request settles: next()
ensureInitialized_next(r) ==
    /\ boot.reqs[r].pc = "waiting"
    /\ waitEnds(boot.reqs[r].settled, boot.reqs[r].waited)
    /\ boot' = [boot EXCEPT !.reqs[r].pc = "next"]
    /\ bootOnly

\* one second passes: no timer is due and nothing is ready to run
bootTick ==
    /\ \/ boot.initializationPromise # "null"
       \/ boot.body \in {"databases", "pinecone"}
       \/ \E r \in BootRequests : boot.reqs[r].pc = "waiting"
    /\ boot.initializationPromise # "null" => boot.t < initTimeoutSeconds
    /\ boot.body = "databases" => boot.tdb < databaseTimeoutSeconds
    /\ boot.body = "pinecone" => boot.tpc < pineconeTimeoutSeconds
    /\ \A r \in BootRequests :
          boot.reqs[r].pc = "waiting"
              => ~waitEnds(boot.reqs[r].settled, boot.reqs[r].waited)
    /\ \A c \in BootCallers :
          boot.callers[c] = "awaiting" => boot.initializationPromise # "null"
    /\ boot' = [boot EXCEPT
                  !.t = IF boot.initializationPromise # "null" THEN boot.t + 1 ELSE 0,
                  !.tdb = IF boot.body = "databases" THEN boot.tdb + 1 ELSE 0,
                  !.tpc = IF boot.body = "pinecone" THEN boot.tpc + 1 ELSE 0,
                  !.reqs = [r \in BootRequests |->
                              IF boot.reqs[r].pc = "waiting"
                              THEN [boot.reqs[r] EXCEPT !.waited = boot.reqs[r].waited + 1]
                              ELSE boot.reqs[r]]]
    /\ bootOnly

\* the module is loaded: initializeServices(true) has started the initialization
BootInit ==
    /\ redisMode = "up"
    /\ redisIsOpen = FALSE
    /\ store = <<>>
    /\ mongoUp \in BOOLEAN
    /\ mirror = EmptyMirror
    /\ inv = [i \in AllCallers |-> Idle]
    /\ prev = [i \in AllCallers |-> NoPrev]
    /\ calls = 0
    /\ workload = {}
    /\ lastRedis = NoRedisCall
    /\ connecting = [s \in Stores |-> FALSE]
    /\ connected = [s \in Stores |-> FALSE]
    /\ orphans = [s \in Stores |-> 0]
    /\ cc = [i \in AllCallers |-> NotConnecting]
    /\ seed = NoSeed
    /\ chap = NoChap
    /\ boot = startInitialization(NoBoot)

BootNext ==
    \/ \E c \in BootCallers, skipWait \in BOOLEAN : initializeServices(c, skipWait)
    \/ \E c \in BootCallers : initializeServices_resume(c)
    \/ \E byTimer \in BOOLEAN : databasesDone(byTimer)
    \/ \E byTimer \in BOOLEAN : pineconeDone(byTimer)
    \/ initTimeout
    \/ \E r \in BootRequests : ensureInitialized(r)
    \/ \E r \in BootRequests : ensureInitialized_next(r)
    \/ bootTick

BootSpec == BootInit /\ [][BootNext]_vars

\* the event loop runs every timer that is due and every continuation that
\* is ready, and time passes
BootLiveSpec ==
    /\ BootSpec
    /\ WF_boot(bootTick)
    /\ WF_boot(initTimeout)
    /\ WF_boot(databasesDone(TRUE))
    /\ WF_boot(pineconeDone(TRUE))
    /\ \A r \in BootRequests : WF_boot(ensureInitialized_next(r))
    /\ \A c \in BootCallers : WF_boot(initializeServices_resume(c))

(***************************************************************************)
(* Seeding (scripts/seedHadiths.ts, scripts/seedQuran.ts)                  *)
(***************************************************************************)
\* const maxPages = 100
maxPages == 100

\* seeding runs started in a behaviour
MaxRuns == 2

\* the books the provider lists, and the pages of hadiths it has for each
SeedBooks ==
    <<RemoteBook,
      [RemoteBook EXCEPT !.id = 2, !.bookName = "Sahih Muslim", !.bookSlug = "sahih-muslim"]>>

corpusPages(b) == IF b = 1 THEN 2 ELSE 1

corpusHadith(b, p) ==
    [RemoteHadith EXCEPT !.id = 10 * b + p, !.hadithNumber = numeral(p),
                         !.bookSlug = SeedBooks[b].bookSlug, !.book = SeedBooks[b]]

\* hadithsResponse.data.hadiths for page p of book b; the provider may report
\* any last_page
hadithsPage(b, p, lastPage) ==
    [data |-> IF p <= corpusPages(b) THEN <<corpusHadith(b, p)>> ELSE <<>>,
     current_page |-> p, last_page |-> lastPage]

\* the document seedHadiths builds from an API hadith
toMirrorHadith(apiHadith) ==
    [collectionName |-> apiHadith.bookSlug, book |-> apiHadith.book.bookName,
     bookNumber |-> apiHadith.book.id, hadithNumber |-> apiHadith.hadithNumber,
     chapter |-> apiHadith.chapter.chapterEnglish,
     chapterNumber |-> Number(apiHadith.chapter.chapterNumber),
     arabicText |-> apiHadith.hadithArabic, englishText |-> apiHadith.hadithEnglish,
     urduText |-> apiHadith.hadithUrdu, grade |-> apiHadith.status,
     narrator |-> apiHadith.englishNarrator]

\* the document seedQuran builds from the metadata, the Arabic surah and the
\* English one (englishSurahs is empty when the job went on without it)
toMirrorSurah(arabicSurah, englishSurahs) ==
    [number |-> arabicSurah.number, name |-> arabicSurah.englishName,
     nameArabic |-> arabicSurah.name,
     nameTranslation |-> arabicSurah.englishNameTranslation,
     revelationType |-> arabicSurah.revelationType,
     numberOfAyahs |-> Len(arabicSurah.ayahs),
     ayahs |-> [k \in 1..Len(arabicSurah.ayahs) |->
                  LET a == arabicSurah.ayahs[k]
                      en == IF englishSurahs = <<>> THEN ""
                            ELSE englishSurahs[1].ayahs[k].text
                  IN  [number |-> a.number, numberInSurah |-> a.numberInSurah,
                       text |-> en, textArabic |-> a.text, translation |-> en,
                       juz |-> a.juz, manzil |-> a.manzil, page |-> a.page,
                       ruku |-> a.ruku, hizbQuarter |-> a.hizbQuarter,
                       sajda |-> a.sajda]]]

\* the collection a job owns
domainOf(job, m) == IF job = "hadith" THEN m.hadiths ELSE m.surahs

withDomain(job, m, docs) ==
    IF job = "hadith" THEN [m EXCEPT !.hadiths = docs] ELSE [m EXCEPT !.surahs = docs]

\* a job that appends to what the collection holds
deleteMany_skipped(docs) == docs

\* await Hadith.deleteMany({}) / await Surah.deleteMany({})
deleteMany(docs) == <<>>

\* a job that gives up on every exhausted request
onExhausted_abort(request) == "abort"

\* what the job does when the third attempt of a request has failed: the
\* book list, the Arabic text and the metadata rethrow; a page of hadiths
\* ends its collection and the English translation is done without
onExhausted(request) ==
    IF request \in {"books", "arabic", "meta"} THEN "abort" ELSE "continue"

\* a page loop without the page limit
morePages_uncapped(hasMore, page) == hasMore

\* while (hasMore && page <= maxPages)
morePages(hasMore, page) == hasMore /\ page <= maxPages

\* the request that follows a request of the retry loops
nextRequest(request) ==
    CASE request = "books" -> "page"
      [] request = "arabic" -> "english"
      [] request = "english" -> "meta"
      [] OTHER -> "create"

exited(s, code) == [s EXCEPT !.pc = "exited", !.exit = code]

\* for (const book of books): the next collection, or the end of the job
nextBook(s) ==
    IF s.book < Len(SeedBooks)
    THEN [s EXCEPT !.pc = "page", !.book = s.book + 1, !.page = 1, !.retries = 3,
                   !.attempts = 0]
    ELSE exited(s, "success")

\* npm run seed:hadiths / seed:quran
seedStart(job) ==
    /\ seed.pc \in {"idle", "exited"}
    /\ seed.runs < MaxRuns
    /\ seed' = [NoSeed EXCEPT !.job = job, !.pc = "connect", !.runs = seed.runs + 1,
                              !.before = domainOf(job, mirror)]
    /\ UNCHANGED <<mongoUp, mirror, chap, boot>>
    /\ UNCHANGED resolverVars
    /\ UNCHANGED connVars

\* await mongoose.connect(mongoUri)
seedConnect ==
    /\ seed.pc = "connect"
    /\ seed' = IF mongoUp THEN [seed EXCEPT !.pc = "clear"] ELSE exited(seed, "failure")
    /\ UNCHANGED <<mongoUp, mirror, chap, boot>>
    /\ UNCHANGED resolverVars
    /\ UNCHANGED connVars

\* deleteMany({}), then the first request of the job
seedClear ==
    /\ seed.pc = "clear"
    /\ mirror' = withDomain(seed.job, mirror, deleteMany(domainOf(seed.job, mirror)))
    /\ seed' = [seed EXCEPT !.pc = IF seed.job = "hadith" THEN "books" ELSE "arabic",
                            !.retries = 3]
    /\ UNCHANGED <<mongoUp, chap, boot>>
    /\ UNCHANGED resolverVars
    /\ UNCHANGED connVars

\* one attempt of a request of the retry loops: the book list, the Arabic
\* text, the English translation, the metadata
seedFetch(ok) ==
    /\ seed.pc \in {"books", "arabic", "english", "meta"}
    /\ LET a == [seed EXCEPT !.attempts = seed.attempts + 1]
           next == [a EXCEPT !.pc = nextRequest(seed.pc), !.retries = 3, !.attempts = 0,
                             !.book = 1, !.page = 1]
       IN  seed' =
             IF ok
             THEN [next EXCEPT !.english = IF seed.pc = "english" THEN TRUE ELSE a.english]
             ELSE IF a.retries - 1 > 0
             THEN [a EXCEPT !.retries = a.retries - 1]
             ELSE LET e == [a EXCEPT !.retries = 0, !.exhausted = a.exhausted \cup {seed.pc}]
                  IN  IF onExhausted(seed.pc) = "abort"
                      THEN exited(e, "failure")
                      ELSE [e EXCEPT !.pc = nextRequest(seed.pc), !.retries = 3,
                                     !.attempts = 0]
    /\ UNCHANGED <<mongoUp, mirror, chap, boot>>
    /\ UNCHANGED resolverVars
    /\ UNCHANGED connVars

\* one attempt of a page of hadiths, and insertMany of what it returned
seedPage(answer, lastPage) ==
    /\ seed.pc = "page"
    /\ LET a == [seed EXCEPT !.attempts = seed.attempts + 1]
           got == hadithsPage(seed.book, seed.page, lastPage)
           docs == [k \in 1..Len(got.data) |-> toMirrorHadith(got.data[k])]
       IN  CASE answer = "ok" ->
                  /\ mirror' = [mirror EXCEPT !.hadiths = mirror.hadiths \o docs]
                  /\ seed' =
                       LET b == [a EXCEPT !.inserted = a.inserted \o docs,
                                          !.page = a.page + 1, !.retries = 3,
                                          !.attempts = 0]
                       IN  IF morePages(got.current_page < got.last_page, b.page)
                           THEN b ELSE nextBook(b)
              [] answer = "404" ->
                  /\ seed' = nextBook(a)
                  /\ UNCHANGED mirror
              [] OTHER ->
                  /\ seed' =
                       IF a.retries - 1 > 0
                       THEN [a EXCEPT !.retries = a.retries - 1]
                       ELSE LET e == [a EXCEPT !.retries = 0,
                                               !.exhausted = a.exhausted \cup {"page"}]
                            IN  IF onExhausted("page") = "abort"
                                THEN exited(e, "failure") ELSE nextBook(e)
                  /\ UNCHANGED mirror
    /\ UNCHANGED <<mongoUp, chap, boot>>
    /\ UNCHANGED resolverVars
    /\ UNCHANGED connVars

\* for (const surahMeta of surahsMeta): Surah.create of every surah
seedCreate ==
    /\ seed.pc = "create"
    /\ LET docs == <<toMirrorSurah(RemoteSurah(DEFAULT_ARABIC_EDITION),
                                   IF seed.english THEN <<RemoteSurah(EnAsad)>> ELSE <<>>)>>
       IN  /\ mirror' = [mirror EXCEPT !.surahs = mirror.surahs \o docs]
           /\ seed' = exited([seed EXCEPT !.inserted = docs], "success")
    /\ UNCHANGED <<mongoUp, chap, boot>>
    /\ UNCHANGED resolverVars
    /\ UNCHANGED connVars

SeedInit ==
    /\ redisMode = "up"
    /\ redisIsOpen = FALSE
    /\ store = <<>>
    /\ mongoUp \in BOOLEAN
    /\ mirror \in {SeededMirror, EmptyMirror}
    /\ inv = [i \in AllCallers |-> Idle]
    /\ prev = [i \in AllCallers |-> NoPrev]
    /\ calls = 0
    /\ workload = {}
    /\ lastRedis = NoRedisCall
    /\ connecting = [s \in Stores |-> FALSE]
    /\ connected = [s \in Stores |-> FALSE]
    /\ orphans = [s \in Stores |-> 0]
    /\ cc = [i \in AllCallers |-> NotConnecting]
    /\ seed = NoSeed
    /\ chap = NoChap
    /\ boot = NoBoot

seedStep ==
    \/ seedConnect
    \/ seedClear
    \/ \E ok \in BOOLEAN : seedFetch(ok)
    \/ \E answer \in {"ok", "404", "error"} :
          \E lastPage \in {corpusPages(seed.book), seed.page + 1} : seedPage(answer, lastPage)
    \/ seedCreate

SeedNext ==
    \/ \E job \in {"hadith", "quran"} : seedStart(job)
    \/ seedStep

SeedSpec == SeedInit /\ [][SeedNext]_vars

\* the script runs on: every await of it ends
SeedLiveSpec == SeedSpec /\ WF_seed(seedStep)

(***************************************************************************)
(* Reference results                                                       *)
(***************************************************************************)
\* the request a finished or running invocation was called with
topReq(c) == IF c.outer.op # "none" THEN c.outer ELSE c.req

\* a top-level invocation that has computed its result
Finished(i) == inv[i].pc = "done" /\ inv[i].outer.op = "none"

\* what the database fallback of req hands to the caller
fallbackResult(req, m, up) ==
    LET fb == fallback(req, m, up)
    IN  CASE fb.kind = "value" -> Val(fb.value)
          [] fb.kind = "notfound" -> notFoundResult(req)
          [] OTHER -> errorResult(req)

\* what a resolver without any cache returns, given the answers of the provider
resultOnMiss(req, outs, m, up) ==
    IF outs = <<>> THEN fallbackResult(req, m, up)
    ELSE IF outs[1] = "ok" THEN Val(remoteValue(req))
    ELSE IF req.op = "getHadithById" /\ outs[1] \in {"404", "empty"} /\ Len(outs) > 1
    THEN LET s == [op |-> "getHadiths", filters |-> getHadithById_search(req.id)]
             found == IF outs[2] = "ok" THEN Val(remoteValue(s))
                      ELSE fallbackResult(s, m, up)
         IN  IF found.kind = "value" /\ Len(found.v.hadiths) > 0
             THEN Val(found.v.hadiths[1])
             ELSE fallbackResult(req, m, up)
    ELSE fallbackResult(req, m, up)

(***************************************************************************)
(* C1: when Redis is unreachable, a resolver returns exactly what it       *)
(* returns on a plain cache miss: the provider's value when the provider   *)
(* answers with data, the outcome of the database fallback otherwise; it   *)
(* never fails because of the cache.                                       *)
(***************************************************************************)
C1_DegradationSafety ==
    \A i \in AllCallers :
        (redisMode = "down" /\ Finished(i))
            => inv[i].result = resultOnMiss(inv[i].req, inv[i].remoteOuts, mirror, mongoUp)

\* Redis is down, the client was left opening by a timed-out connect, and a
\* cached resolver still returned a value
C1_Witness ==
    \E i \in AllCallers :
        /\ redisMode = "down" /\ Finished(i) /\ usesCache(inv[i].req)
        /\ lastRedis.call = "set" /\ lastRedis.wasOpen /\ lastRedis.cmd = "error"
        /\ inv[i].result.kind = "value"

(***************************************************************************)
(* C2: redisGet and redisSet never throw.  When the connection or the      *)
(* command fails, redisGet returns a miss and redisSet returns false and   *)
(* leaves the key space alone; redisSet returns true only when the command *)
(* was issued and succeeded, and then the key holds the value and the TTL. *)
(***************************************************************************)
\* the command of the last wrapper call was sent to the server
commandIssued == lastRedis.wasOpen \/ lastRedis.conn # "rejected"

C2_WrappersNeverThrow ==
    /\ lastRedis.call # "none" => ~lastRedis.threw
    /\ lastRedis.call = "get" =>
          /\ (~commandIssued \/ lastRedis.cmd # "ok") => lastRedis.ret = Miss
          /\ lastRedis.ret # Miss => lastRedis.held
    /\ lastRedis.call = "set" =>
          /\ lastRedis.ret = (commandIssued /\ lastRedis.cmd = "ok")
          /\ lastRedis.ret =>
                /\ lastRedis.key \in DOMAIN lastRedis.after
                /\ lastRedis.after[lastRedis.key] =
                       [value |-> lastRedis.value, ttl |-> lastRedis.ttl]
          /\ ~lastRedis.ret => lastRedis.after = lastRedis.before

\* a GET failed on a key the server holds and came back as a miss
C2_Witness ==
    /\ lastRedis.call = "get" /\ lastRedis.held /\ lastRedis.cmd = "error"
    /\ lastRedis.ret = Miss

(***************************************************************************)
(* C3: when the cache read of a resolver returns a live entry for the      *)
(* computed key, the resolver returns the deserialized entry, calls no     *)
(* remote provider, queries no mirror and writes nothing to the cache.     *)
(***************************************************************************)
C3_CacheHitIsFinal ==
    /\ \A i \in AllCallers :
          inv[i].cached.hit =>
              /\ inv[i].remoteCalls = 0
              /\ inv[i].mirrorQueries = 0
              /\ inv[i].wrote = <<>>
              /\ Finished(i)
              /\ JSONstringify(inv[i].result.v) = inv[i].cached.s
    /\ (lastRedis.call = "get" /\ lastRedis.held /\ commandIssued /\ lastRedis.cmd = "ok")
          => lastRedis.ret.hit

\* a call found the entry an earlier call had written from the database fallback
C3_Witness ==
    \E i \in AllCallers :
        /\ inv[i].cached.hit /\ Finished(i)
        /\ inv[i].path = "cache"
        /\ prev[i].live /\ prev[i].result = inv[i].result
        /\ store[cacheKey(inv[i].req)].ttl = 3600

(***************************************************************************)
(* C4: a resolver never repeats a remote request.  Every resolver but      *)
(* getHadithById sends at most one request per invocation and goes to the  *)
(* mirror when it fails.  getHadithById sends at most two: the by-id       *)
(* request and, only after that one answered 404 or without a hadith, one  *)
(* search request through getHadiths; on a timeout or any other error of   *)
(* the by-id request, and on any failure of the search, it goes to the     *)
(* mirror.                                                                 *)
(***************************************************************************)
C4_RemoteCallsBounded ==
    \A i \in AllCallers :
        LET c == inv[i]
            outs == c.remoteOuts
        IN  /\ c.remoteCalls = Len(outs)
            /\ topReq(c).op # "getHadithById" => c.remoteCalls <= 1
            /\ c.remoteCalls <= 2
            /\ c.remoteCalls = 2 => outs[1] \in {"404", "empty"}
            /\ (c.remoteCalls >= 1 /\ outs[1] \in {"error", "timeout"})
                  => c.remoteCalls = 1
            /\ (c.outer.op # "none") => (c.req.op = "getHadiths" /\ c.remoteCalls >= 1)

\* getHadithById asked the by-id endpoint, got a 404, and asked the search endpoint
C4_Witness ==
    \E i \in AllCallers :
        /\ Finished(i) /\ inv[i].req.op = "getHadithById"
        /\ inv[i].remoteCalls = 2
        /\ inv[i].remoteOuts = <<"404", "ok">>
        /\ inv[i].result.kind = "value"

\* C4 as stated: no invocation calls the remote provider more than once
C4_AtMostOneRemoteCall ==
    \A i \in AllCallers : inv[i].remoteCalls <= 1

(***************************************************************************)
(* C5: with no cache entry and the remote provider failing, getAyah        *)
(* returns the transformed mirror record of every reference the mirror     *)
(* holds, an ayah addressed by its plain number included, never not-found. *)
(***************************************************************************)
\* the ayahs of the mirror a reference names: surah:ayah, or the ayah's number
mirrorAyahs(m, reference) ==
    LET str == refStr(reference)
        parts == splitColon(str)
        all == Flatten(Map(LAMBDA su : su.ayahs, m.surahs))
    IN  IF includesColon(str)
        THEN LET found == findSurah(m, NumberOf(parts[1]))
             IN  IF Len(found) > 0 THEN findAyah(found[1], NumberOf(parts[2])) ELSE <<>>
        ELSE SelectSeq(all, LAMBDA a : a.number = NumberOf(str))

C5_FallbackCorrectness ==
    \A i \in AllCallers :
        LET c == inv[i]
        IN  (/\ Finished(i) /\ c.req.op = "getAyah"
             /\ ~c.cached.hit /\ c.remoteOuts = <<"error">>
             /\ mongoUp /\ mirrorAyahs(mirror, c.req.reference) # <<>>)
            => c.result = Val(ayahForEdition(mirrorAyahs(mirror, c.req.reference)[1],
                                             editionIdOf(c.req.edition)))

\* getAyah was asked for an ayah by its plain number, the remote call failed,
\* the mirror holds the ayah, and the caller got null without a mirror query
C5_Witness ==
    \E i \in AllCallers :
        /\ Finished(i) /\ inv[i].req.op = "getAyah"
        /\ ~includesColon(refStr(inv[i].req.reference))
        /\ inv[i].remoteOuts = <<"error">> /\ mongoUp
        /\ mirrorAyahs(mirror, inv[i].req.reference) # <<>>
        /\ inv[i].result = Null /\ inv[i].mirrorQueries = 0

(***************************************************************************)
(* C6: a result served from the mirror has the field set of the remote     *)
(* result; a multi-edition result served from the mirror has one entry for *)
(* every requested edition.                                                *)
(***************************************************************************)
\* the editions a multi-edition request names
requestedEditions(req) == {req.editions[k] : k \in 1..Len(req.editions)}

C6_ShapeEquivalence ==
    \A i \in AllCallers :
        LET c == inv[i]
        IN  (Finished(i) /\ c.path = "fallback" /\ c.result.kind = "value") =>
               /\ c.req.op \in {"getSurah", "getAyah", "getHadithById"} =>
                     DOMAIN c.result.v = DOMAIN RemoteData(c.req)
               /\ c.req.op \in {"getSurahMultipleEditions", "getAyahMultipleEditions"} =>
                     /\ DOMAIN c.result.v = requestedEditions(c.req)
                     /\ \A e \in DOMAIN c.result.v :
                           DOMAIN c.result.v[e] = DOMAIN RemoteData(c.req)[e]

\* a multi-edition request was served from the mirror without the entry of
\* one of its editions
C6_Witness ==
    \E i \in AllCallers :
        /\ Finished(i) /\ inv[i].path = "fallback" /\ inv[i].result.kind = "value"
        /\ inv[i].req.op = "getSurahMultipleEditions"
        /\ ArAlafasy \in requestedEditions(inv[i].req)
        /\ ArAlafasy \notin DOMAIN inv[i].result.v
        /\ DEFAULT_ARABIC_EDITION \in DOMAIN inv[i].result.v

(***************************************************************************)
(* C7: for a resolver that caches (every one but searchQuran and a         *)
(* getHadiths with a text filter), with Redis reachable: when a call       *)
(* returned a value that is in the cache (it stored it, or was itself a    *)
(* hit), the next call with the same parameters before the entry expires   *)
(* returns the identical result from the cache alone, with no remote call, *)
(* no mirror query and no cache write.                                     *)
(***************************************************************************)
\* caller i is past the cache read of a repetition of its previous call
Repeated(i) ==
    /\ inv[i].pc \notin {"idle", "cacheCheck"}
    /\ topReq(inv[i]) = prev[i].req
    /\ prev[i].live

C7_SecondCallIsCacheHit ==
    \A i \in AllCallers :
        (Repeated(i) /\ redisMode = "up" /\ prev[i].stored) =>
            /\ Finished(i)
            /\ inv[i].result = prev[i].result
            /\ inv[i].path = "cache"
            /\ inv[i].remoteCalls = 0
            /\ inv[i].mirrorQueries = 0
            /\ inv[i].wrote = <<>>

\* the first call was served from the mirror and stored, the second is a hit
C7_Witness ==
    \E i \in AllCallers :
        /\ Repeated(i) /\ redisMode = "up" /\ prev[i].stored
        /\ Finished(i) /\ inv[i].path = "cache"
        /\ inv[i].req.op = "getSurah"
        /\ store[cacheKey(inv[i].req)].ttl = 3600
        /\ calls = 2

\* C7 as stated: any repeated call that follows a successful one within the
\* TTL returns the same result and touches neither the remote nor the mirror
C7_Idempotence ==
    \A i \in AllCallers :
        (/\ Repeated(i) /\ Finished(i) /\ redisMode = "up"
         /\ prev[i].result.kind = "value")
        => /\ inv[i].result = prev[i].result
           /\ inv[i].remoteCalls = 0
           /\ inv[i].mirrorQueries = 0

(***************************************************************************)
(* C8: the TTL of every cache write on the fallback path is at most the    *)
(* TTL of the cache write on the remote-success path of the same resolver. *)
(***************************************************************************)
\* the cache writes of caller i's invocation that carry mirror data
fallbackWrites(i) ==
    {inv[i].wrote[k] : k \in {j \in 1..Len(inv[i].wrote) : inv[i].wrote[j].src = "fallback"}}

C8_TTLOrdering ==
    \A i \in AllCallers :
        /\ \A w \in fallbackWrites(i) : w.ttl > 0 /\ w.ttl <= remoteTTL(w.op)
        /\ (inv[i].pending.kind = "value" /\ inv[i].pending.src = "fallback")
              => inv[i].pending.ttl <= remoteTTL(inv[i].req.op)

\* getSurah stored a mirror record for one hour where a remote one gets twelve
C8_Witness ==
    \E i \in AllCallers :
        /\ Finished(i) /\ inv[i].req.op = "getSurah"
        /\ \E w \in fallbackWrites(i) : w.ok /\ w.ttl = 3600 /\ remoteTTL(w.op) = 43200
        /\ store[cacheKey(inv[i].req)].ttl = 3600

(***************************************************************************)
(* C9: every cache write on the fallback path uses a TTL of 3600 s,        *)
(* strictly shorter than the TTL of the remote-success write of the same   *)
(* resolver.                                                               *)
(***************************************************************************)
C9_FallbackTTLOneHour ==
    \A i \in AllCallers :
        \A w \in fallbackWrites(i) : w.ttl = 3600 /\ w.ttl < remoteTTL(w.op)

\* getAyah stored a mirror record for a whole day, as long as a remote one
C9_Witness ==
    \E i \in AllCallers :
        /\ Finished(i) /\ inv[i].req.op = "getAyah" /\ inv[i].path = "fallback"
        /\ \E w \in fallbackWrites(i) : w.ok /\ w.ttl = 86400 /\ w.ttl = remoteTTL(w.op)
        /\ store[cacheKey(inv[i].req)].ttl = 86400

(***************************************************************************)
(* C10: for a single-item lookup (getSurah, getAyah, getHadithById) a      *)
(* remote answer without data is handled like a remote failure: the        *)
(* resolver goes on to the mirror (getHadithById first to its search) and  *)
(* returns the mirror's record when there is one; it returns not-found     *)
(* only when the fallback finds none.  The mirror is not queried after a   *)
(* remote answer that carried the item.                                    *)
(***************************************************************************)
SingleItemOps == {"getSurah", "getAyah", "getHadithById"}

TotalMiss(i) ==
    /\ Finished(i) /\ mongoUp /\ mirror = EmptyMirror
    /\ inv[i].remoteOuts # <<>>
    /\ \A k \in 1..Len(inv[i].remoteOuts) : inv[i].remoteOuts[k] \in {"empty", "404"}

C11_NotFoundIsNotAnError ==
    \A i \in AllCallers : TotalMiss(i) => inv[i].result.kind # "throw"

\* getSurahsList found nothing at the remote and nothing in the mirror and threw
C11_Witness ==
    \E i \in AllCallers :
        /\ TotalMiss(i) /\ inv[i].req.op = "getSurahsList"
        /\ inv[i].mirrorQueries = 1
        /\ inv[i].result = Thrown

(***************************************************************************)
(* C12: when neither the remote provider nor the mirror has a record for   *)
(* the request, no resolver writes a cache entry.                          *)
(***************************************************************************)
C12_NoNegativeCaching ==
    \A i \in AllCallers : TotalMiss(i) => inv[i].wrote = <<>>

\* getHadiths found nothing anywhere and stored the empty page for an hour
C12_Witness ==
    \E i \in AllCallers :
        /\ TotalMiss(i) /\ inv[i].req.op = "getHadiths"
        /\ inv[i].result.kind = "value" /\ inv[i].result.v.hadiths = <<>>
        /\ cacheKey(inv[i].req) \in DOMAIN store
        /\ store[cacheKey(inv[i].req)] =
               [value |-> JSONstringify(inv[i].result.v), ttl |-> 3600]

(***************************************************************************)
(* C13: when the remote call fails and the mirror cannot be queried, the   *)
(* resolver raises an error; it does not return the not-found outcome.     *)
(***************************************************************************)
\* the remote gave nothing and the fallback of the request failed
MirrorFailed(i) ==
    /\ Finished(i) /\ ~mongoUp
    /\ inv[i].remoteOuts # <<>>
    /\ \A k \in 1..Len(inv[i].remoteOuts) : inv[i].remoteOuts[k] # "ok"
    /\ fallback(inv[i].req, mirror, mongoUp).kind = "throw"

C13_MirrorFailureIsHardError ==
    \A i \in AllCallers : MirrorFailed(i) => inv[i].result = Thrown

\* getSurah could not query the mirror and returned null, its not-found outcome
C13_Witness ==
    \E i \in AllCallers :
        /\ MirrorFailed(i) /\ inv[i].req.op = "getSurah"
        /\ inv[i].mirrorQueries = 1
        /\ inv[i].result = Null /\ inv[i].result = notFoundResult(inv[i].req)

(***************************************************************************)
(* C14: every read operation of the Quran and Hadith services has a mirror *)
(* fallback: after a remote timeout or error the mirror is queried.        *)
(***************************************************************************)
C14_EveryReadHasFallback ==
    \A i \in AllCallers :
        (/\ Finished(i) /\ mongoUp /\ mirror = SeededMirror
         /\ inv[i].remoteOuts # <<>>
         /\ inv[i].remoteOuts[1] \in {"error", "timeout"})
        => inv[i].mirrorQueries >= 1

\* the remote call of getEditions failed and the error went to the caller
\* with the mirror never asked
C14_Witness ==
    \E i \in AllCallers :
        /\ Finished(i) /\ inv[i].req.op = "getEditions"
        /\ mongoUp /\ mirror = SeededMirror
        /\ inv[i].remoteOuts = <<"error">>
        /\ inv[i].mirrorQueries = 0
        /\ inv[i].result = Thrown

(***************************************************************************)
(* C15: every remote call carries a timeout, so every resolver invocation  *)
(* eventually returns, even if the remote provider never responds.         *)
(***************************************************************************)
C15_EveryCallReturns ==
    \A i \in {1} : (inv[i].pc # "idle") ~> (inv[i].pc = "idle")

\* getEditions waits for a response that never comes, with no timer running
C15_Witness ==
    \E i \in AllCallers :
        /\ inv[i].pc = "awaitRemote" /\ inv[i].req.op = "getEditions"
        /\ inv[i].remoteOuts = <<"noResponse">>
        /\ ~hasTimeout(inv[i].req.op)

(***************************************************************************)
(* C16: two requests for the same operation with the same parameter values *)
(* have the same cache key, whatever the order in which the caller built   *)
(* the parameters.                                                         *)
(***************************************************************************)
\* the properties of a filters object, without their order
propsOf(filters) == {filters[k] : k \in 1..Len(filters)}

\* the same operation asked with the same parameter values
sameParams(r1, r2) ==
    /\ r1.op = r2.op
    /\ IF r1.op \in {"getHadiths", "getEditions"}
       THEN propsOf(r1.filters) = propsOf(r2.filters)
       ELSE r1 = r2

C16_CanonicalKeys ==
    \A i \in AllCallers :
        (inv[i].pc # "idle" /\ prev[i].req.op # "none"
         /\ sameParams(topReq(inv[i]), prev[i].req))
        => cacheKey(topReq(inv[i])) = cacheKey(prev[i].req)

\* getHadiths stored the page of {book, paginate, page}; the same filters built
\* as {paginate, page, book} missed the cache and went to the remote again
C16_Witness ==
    \E i \in AllCallers :
        /\ inv[i].pc = "remote" /\ inv[i].req.op = "getHadiths"
        /\ sameParams(inv[i].req, prev[i].req) /\ inv[i].req # prev[i].req
        /\ redisMode = "up" /\ prev[i].stored /\ prev[i].live
        /\ cacheKey(prev[i].req) \in DOMAIN store
        /\ ~inv[i].cached.hit

\* C17: per store at most one connection attempt is in flight: a caller that
\* had to wait for another caller's attempt and whose wait ran out never
\* starts an attempt of its own next to it.
C17_SingleAttemptInFlight ==
    \A i \in AllCallers :
        (cc[i].pc = "connecting" /\ cc[i].waitedOut) => inFlight(cc[i].store) <= 1

\* a caller is in the wait loop while another caller's attempt is in flight
C17_Witness ==
    \E i \in AllCallers :
        /\ cc[i].pc = "waiting" /\ cc[i].attempts = waitLimit(cc[i].store) - 1
        /\ connecting[cc[i].store] /\ ~connected[cc[i].store]
        /\ inFlight(cc[i].store) = 1

\* the last write a finished invocation made to the cache went through
wroteToCache(i) ==
    /\ inv[i].wrote # <<>>
    /\ inv[i].wrote[Len(inv[i].wrote)].ok

\* C18: invocations for the same {operation, params} that run concurrently
\* return equivalent values, and what the cache holds for their key is what
\* each of them wrote, whichever wrote last.
C18_InterleavingIndependence ==
    \A i, j \in AllCallers :
        (/\ Finished(i) /\ Finished(j)
         /\ inv[i].req = inv[j].req
         /\ inv[i].result.kind = "value" /\ inv[j].result.kind = "value")
        => /\ inv[i].result = inv[j].result
           /\ (wroteToCache(i) /\ cacheKey(inv[i].req) \in DOMAIN store)
                 => JSONparse(store[cacheKey(inv[i].req)].value) = inv[i].result.v

\* two overlapping calls of getSurah(1, 'en.asad') both wrote their value
C18_Witness ==
    /\ \A i \in AllCallers :
          /\ Finished(i) /\ inv[i].req.op = "getSurah"
          /\ inv[i].result.kind = "value" /\ wroteToCache(i)
    /\ inv[1].path # inv[2].path

\* a finished invocation none of whose cache reads (its own, and that of the
\* search getHadithById falls back on) found an entry
missedCache(i) ==
    /\ Finished(i)
    /\ ~inv[i].cached.hit
    /\ (/\ inv[i].req.op = "getHadithById"
        /\ inv[i].remoteOuts # <<>>
        /\ inv[i].remoteOuts[1] \in {"404", "empty"})
          => Len(inv[i].remoteOuts) > 1

\* C18 as the code has it: what an invocation that missed the cache returns
\* depends only on its request, on the answers the provider gave to its own
\* calls and on the mirror, however its steps interleave with another
\* invocation; invocations with the same request and the same answers
\* return the same value; and the cache holds what was written last.
C18_SourceDeterminesValue ==
    /\ \A i \in AllCallers :
          missedCache(i)
              => inv[i].result = resultOnMiss(inv[i].req, inv[i].remoteOuts, mirror, mongoUp)
    /\ \A i, j \in AllCallers :
          (/\ missedCache(i) /\ missedCache(j)
           /\ inv[i].req = inv[j].req
           /\ inv[i].remoteOuts = inv[j].remoteOuts)
          => inv[i].result = inv[j].result
    /\ (lastRedis.call = "set" /\ lastRedis.ret /\ lastRedis.key \in DOMAIN store)
          => store[lastRedis.key].value = lastRedis.value

\* C19: no step of a resolver call, in any interleaving of two calls,
\* changes the content of the mirror.
C19_MirrorReadOnly == [][mirror' = mirror]_vars

\* both callers have queried the seeded mirror, one of them is done with it
C19_Witness ==
    /\ mirror = SeededMirror /\ mongoUp
    /\ Finished(1) /\ inv[1].path = "fallback" /\ inv[1].mirrorQueries > 0
    /\ inv[2].pc = "cacheWrite" /\ inv[2].pending.src = "fallback"
    /\ inv[2].mirrorQueries > 0

\* searchQuran, or getHadiths with a text filter
textSearch(req) ==
    \/ req.op = "searchQuran"
    \/ /\ req.op = "getHadiths"
       /\ \E k \in 1..Len(req.filters) :
             /\ req.filters[k].k \in {"hadithEnglish", "hadithUrdu", "hadithArabic"}
             /\ req.filters[k].s # ""

\* C20: a text-search request never reads the cache and never writes it: no
\* step of it issues a Redis command or changes the cache, and when it has
\* its result it has called the remote provider (and then the mirror, if
\* the provider gave nothing).
C20_TextSearchNotCached ==
    /\ [](\A i \in AllCallers :
            (inv[i].pc # "idle" /\ textSearch(inv[i].req)) =>
                /\ inv[i].pc \notin {"cacheCheck", "cacheWrite"}
                /\ ~inv[i].cached.hit
                /\ inv[i].wrote = <<>>
                /\ inv[i].path # "cache"
                /\ Finished(i) =>
                      /\ inv[i].remoteCalls >= 1
                      /\ inv[i].remoteOuts[1] # "ok" => inv[i].mirrorQueries >= 1 \/ ~mongoUp)
    /\ [][\A i \in AllCallers :
            (inv[i].pc # "idle" /\ textSearch(inv[i].req) /\ inv'[i] # inv[i]) =>
                /\ store' = store
                /\ lastRedis' = lastRedis
                /\ redisIsOpen' = redisIsOpen]_vars

\* a text search of the hadiths answered from the mirror while the cache
\* holds the entry of an earlier, cached request
C20_Witness ==
    \E i \in AllCallers :
        /\ Finished(i) /\ textSearch(inv[i].req) /\ inv[i].req.op = "getHadiths"
        /\ inv[i].path = "fallback" /\ inv[i].result.kind = "value"
        /\ redisMode = "up" /\ store # <<>> /\ prev[i].stored /\ prev[i].live

\* a finished top-level invocation that returns a value
returnsValue(i) == Finished(i) /\ inv[i].result.kind = "value"

\* C21 as stated: every invocation that returns a value has logged the path
\* that served it, cache, remote or fallback.
C21_PathLogged ==
    \A i \in AllCallers :
        (returnsValue(i) /\ inv[i].path # "none") =>
            \E k \in 1..Len(inv[i].logged) : inv[i].logged[k] = inv[i].path

\* C21 as the code has it: an invocation that returns a value rebuilt from
\* the mirror has logged the fallback before returning; one served from the
\* cache or by the provider has logged no path.
C21_FallbackLogged ==
    \A i \in AllCallers :
        returnsValue(i) =>
            /\ inv[i].path = "fallback" => inv[i].logged = <<"fallback">>
            /\ inv[i].path = "cache" => inv[i].logged = <<>>
            /\ (inv[i].path = "remote" /\ inv[i].remoteOuts = <<"ok">>)
                  => inv[i].logged = <<>>

\* getSurah returned the record rebuilt from the mirror
C21_Witness ==
    \E i \in AllCallers :
        /\ returnsValue(i) /\ inv[i].req.op = "getSurah"
        /\ inv[i].path = "fallback" /\ inv[i].logged # <<>>

\* the job has cleared its collection in this run
cleared == mongoUp /\ seed.pc \notin {"idle", "connect", "clear"}

\* C22: a seeding run deletes every record of its domain before it inserts
\* any and never appends to what was there: from the deletion on the
\* collection holds exactly the records this run inserted, each once,
\* whatever it held before and however many runs came before.
C22_ClearThenRepopulate ==
    cleared =>
        /\ domainOf(seed.job, mirror) = seed.inserted
        /\ \A j, k \in 1..Len(seed.inserted) :
              seed.inserted[j] = seed.inserted[k] => j = k

\* the second run over a mirror the first run had filled ended with the
\* three hadiths of the corpus
C22_Witness ==
    /\ seed.runs = 2 /\ seed.job = "hadith" /\ seed.pc = "exited"
    /\ seed.exit = "success" /\ seed.exhausted = {}
    /\ Len(seed.before) = 3 /\ Len(mirror.hadiths) = 3

C24_SeedingTerminates ==
    /\ [](seed.attempts <= 3 /\ seed.retries <= 3 /\ seed.page <= maxPages + 1)
    /\ (seed.pc \notin {"idle", "exited"}) ~> (seed.pc = "exited")

\* the provider kept announcing more pages: the job stopped at the page limit
C24_Witness ==
    /\ seed.job = "hadith" /\ seed.pc = "page" /\ seed.book = 2
    /\ seed.page = maxPages /\ seed.retries = 1 /\ seed.attempts = 2

\* C27: a run that ends with a failure leaves the collection as it was before
\* the run.
C27_FailedRunKeepsMirror ==
    (seed.pc = "exited" /\ seed.exit = "failure")
        => domainOf(seed.job, mirror) = seed.before

\* the book list could not be fetched: the run failed after it had emptied a
\* seeded collection
C27_Witness ==
    /\ seed.pc = "exited" /\ seed.exit = "failure" /\ seed.job = "hadith"
    /\ seed.exhausted = {"books"} /\ seed.before # <<>> /\ mirror.hadiths = <<>>

\* C25: cache keys are injective across operations: two calls of different
\* operations or with different arguments never address the same cache key.
C25_KeysInjective ==
    \A i, j \in AllCallers :
        (inv[i].req # NoReq /\ inv[j].req # NoReq /\ inv[i].req.op # inv[j].req.op)
            => cacheKey(inv[i].req) # cacheKey(inv[j].req)

\* getSurah(1, 'multi:en.asad') was served from the cache entry that
\* getSurahMultipleEditions(1, ['en.asad']) had written
C25_Witness ==
    \E i, j \in AllCallers :
        /\ Finished(i) /\ inv[i].req.op = "getSurah" /\ inv[i].path = "cache"
        /\ inv[j].req.op = "getSurahMultipleEditions" /\ wroteToCache(j)
        /\ cacheKey(inv[i].req) = cacheKey(inv[j].req)

\* the last Redis command stored a value rebuilt from the mirror under the
\* key of getSurah(1, 'en.asad'): the remote path stores with remoteTTL, the
\* fallback with the shorter expiry of getSurah_fallback
fallbackWrite ==
    /\ lastRedis.call = "set" /\ lastRedis.ret
    /\ lastRedis.key = getSurah_cacheKey(1, EnAsad)
    /\ lastRedis.ttl # remoteTTL("getSurah")

\* ... over a live entry that held the provider's answer
replacedRemote ==
    /\ fallbackWrite
    /\ lastRedis.key \in DOMAIN lastRedis.before
    /\ lastRedis.before[lastRedis.key].ttl = remoteTTL("getSurah")

\* C26 as stated: a value taken from the mirror is never stored over a live
\* cache entry that holds the provider's answer.
C26_FallbackNeverReplacesRemote ==
    fallbackWrite =>
        ~(/\ lastRedis.key \in DOMAIN lastRedis.before
          /\ lastRedis.before[lastRedis.key].ttl = remoteTTL("getSurah"))

\* C26 as the code has it: the mirror's value does replace a live entry of
\* the provider's answer, with the shorter expiry, but only through an
\* invocation whose own cache read came before that entry and missed.
C26_ReplacesOnlyAfterOwnMiss ==
    replacedRemote =>
        /\ ~inv[lastRedis.by].cached.hit
        /\ lastRedis.after[lastRedis.key].ttl = lastRedis.ttl
        /\ lastRedis.after[lastRedis.key].ttl < lastRedis.before[lastRedis.key].ttl

\* one call of getSurah(1, 'en.asad') stored the provider's answer, the other,
\* which had missed before, stored the mirror's record over it
C26_Witness ==
    /\ replacedRemote
    /\ inv[lastRedis.by].pc = "done" /\ inv[lastRedis.by].path = "fallback"
    /\ \E i \in AllCallers \ {lastRedis.by} :
          /\ inv[i].req.op = "getSurah" /\ wroteToCache(i)
          /\ inv[i].wrote[Len(inv[i].wrote)].src = "remote"

\* the chapter call in hand has returned the name of a chapter or null
lookedUp ==
    /\ chap.pc = "done" /\ chap.op = "getChapterNameBySequentialId"
    /\ chap.result.kind # "throw"

C29_InitializationRunsOnce ==
    /\ boot.runs <= 1
    /\ boot.initializationPromise = "null" => boot.initialized
    /\ \A c \in BootCallers :
          boot.callers[c] = "awaiting" => \/ boot.initializationPromise # "null"
                                          \/ boot.initialized

\* the initialization ended by its 5-second timeout with the body still
\* running, and a later call of initializeServices returned without starting it
C29_Witness ==
    /\ boot.initialized /\ boot.initializationError
    /\ boot.initializationPromise = "null" /\ boot.runs = 1
    /\ boot.body = "pinecone"
    /\ \E c \in BootCallers : boot.callers[c] = "returned"

\* C30: ensureInitialized always comes to next(): a request that arrives
\* while the initialization is in progress waits no more than 3 seconds, and
\* every waiting request goes on, whether the initialization succeeds, times
\* out or is still running.
C30_RequestsAlwaysProceed ==
    /\ [](\A r \in BootRequests : boot.reqs[r].waited <= ensureWaitSeconds)
    /\ \A r \in BootRequests :
          (boot.reqs[r].pc = "waiting") ~> (boot.reqs[r].pc = "next")

\* a request that arrived with the initialization started went on after its
\* 3 seconds while the initialization was still running
C30_Witness ==
    \E r \in BootRequests :
        /\ boot.reqs[r].pc = "next" /\ boot.reqs[r].waited = ensureWaitSeconds
        /\ ~boot.reqs[r].settled
        /\ boot.initializationPromise # "null" /\ ~boot.initialized

====
